---------------------------- MODULE Spec2Model ----------------------------
(***************************************************************************)
(* Decision core of the absence-request expert system:                     *)
(*   - SafeExpressionEvaluator and InferenceEngine                         *)
(*     (src/expert/inference_engine.py),                                   *)
(*   - RulesManager.validate_condition / validate_action                   *)
(*     (src/expert/rules_manager.py),                                      *)
(*   - CaseBasedLearning (src/expert/case_based_learning.py).              *)
(*                                                                         *)
(* The specifications share the variables:                                 *)
(*   Spec      one forward_chaining run over a rule set,                   *)
(*   SpecEval  single calls of evaluate / validate_* / _execute_action,    *)
(*   SpecCBR   the case store and the similarity function,                 *)
(*   SpecRetrieve  retrieval and recommendation over stored cases,         *)
(*   SpecAction, SpecFailing, SpecShared, SpecReserved, SpecChain,         *)
(*   SpecSetFact, SpecCaller  runs over other rule sets and facts,         *)
(*   SpecRules     add_rule, edit_rule and delete_rule,                    *)
(*   SpecFeedback  store_case and update_case_feedback.                    *)
(***************************************************************************)
EXTENDS Integers, Sequences, FiniteSets, TLC

VARIABLES
    \* ---- InferenceEngine (one forward_chaining run) ----
    rule_file,        \* the rules of the rule file, in order of definition
    rules,            \* self.rules: the loaded rule list, sorted by priority
    initial_facts,    \* the caller's mapping given to forward_chaining
    facts,            \* self.facts: the mutable fact environment
    steps,            \* self.inference_steps
    conclusions,      \* local list of forward_chaining
    actions_taken,    \* local list of forward_chaining
    iteration,        \* loop counter of forward_chaining
    max_iterations,   \* argument of forward_chaining
    pc,               \* position of the run: "idle", "loop", "exit", "returned"
    runs,             \* the locals of two runs interleaved on one engine
    \* ---- single calls (evaluator, validation, action execution) ----
    call,             \* which function was called: "none" before the call
    expr,             \* the expression given to evaluate / validate_condition
    callFacts,        \* the fact environment given to the evaluator
    evalOut,          \* what evaluate did: [value, failed, calls, factsAfter]
    actionText,       \* the action text given to validate_action / _execute_action
    valid,            \* ok flag returned by validate_condition / validate_action
    execOut,          \* what _execute_action did: [result, facts]
    mgrIn,            \* RulesManager: the calls made so far and the id of the last
    \* ---- CaseBasedLearning ----
    cases,            \* self.cases: the in-memory case list
    db,               \* rows of table cases
    nextRowId,        \* AUTOINCREMENT counter of table cases
    lastStore,        \* arguments and result of the store_case calls made so far
    simIn,            \* the feature vectors <<v1, v2>> given to calculate_similarity
    simOut,           \* similarity(v1, v2), (v2, v1) and (v1, v1), as fractions
    findIn,           \* arguments of find_similar_cases: [facts, top_k, min_similarity]
    findOut,          \* the list of SimilarCase it returned
    recIn,            \* the facts given to get_recommendations
    recOut            \* the dict it returned

inferVars == <<rule_file, rules, initial_facts, facts, steps, conclusions, actions_taken, iteration,
               max_iterations, pc, runs>>
callVars  == <<call, expr, callFacts, evalOut, actionText, valid, execOut, mgrIn>>
retrVars  == <<findIn, findOut, recIn, recOut>>
cbrVars   == <<cases, db, nextRowId, lastStore, simIn, simOut, retrVars>>
vars      == <<inferVars, callVars, cbrVars>>

-----------------------------------------------------------------------------
(***************************************************************************)
(* Python values.  A value is a record [t, v]: t is the Python type, v the *)
(* payload.  Raise stands for an exception leaving the expression.         *)
(***************************************************************************)
PyNone     == [t |-> "none",  v |-> 0]
PyBool(b)  == [t |-> "bool",  v |-> b]
PyInt(n)   == [t |-> "int",   v |-> n]
PyFloat(n) == [t |-> "float", v |-> n]      \* whole-valued floats only
PyStr(s)   == [t |-> "str",   v |-> s]
PyList(q)  == [t |-> "list",  v |-> q]
PyDict(r)  == [t |-> "dict",  v |-> r]
PyDate(d)  == [t |-> "datetime", v |-> d]   \* a timestamp, in whole days
PyFunc(f)  == [t |-> "func",  v |-> f]      \* a callable: builtin or lambda
Raise      == [t |-> "raise", v |-> 0]

IsRaise(x) == x.t = "raise"
IsNum(x)   == x.t \in {"bool", "int", "float"}
NumVal(x)  == IF x.t = "bool" THEN (IF x.v THEN 1 ELSE 0) ELSE x.v

\* bool(x): Python truthiness
Truthy(x) ==
    CASE x.t = "none"  -> FALSE
      [] x.t = "bool"  -> x.v
      [] x.t \in {"int", "float"} -> x.v # 0
      [] x.t = "str"   -> x.v # ""
      [] x.t = "list"  -> Len(x.v) > 0
      [] OTHER         -> TRUE

\* a == b: never raises; bool, int and float compare by numeric value
RECURSIVE PyEq(_, _)
PyEq(a, b) ==
    IF IsNum(a) /\ IsNum(b) THEN NumVal(a) = NumVal(b)
    ELSE IF a.t # b.t THEN FALSE
    ELSE IF a.t = "list"
         THEN /\ Len(a.v) = Len(b.v)
              /\ \A i \in 1..Len(a.v) : PyEq(a.v[i], b.v[i])
    ELSE a.v = b.v

\* The strings of the model in code-point order, for < on two strings.
StrOrder == <<"", "5", "<repr>", "ART", "False", "None", "True", "b", "linea1",
              "si", "validated", "x">>
StrRank(s) == CHOOSE i \in 1..Len(StrOrder) : StrOrder[i] = s

\* a < b, a <= b, ...: TypeError unless both are numbers, both strings
\* or both timestamps
Ordered(a, b) ==
    \/ IsNum(a) /\ IsNum(b)
    \/ a.t = "str" /\ b.t = "str"
    \/ a.t = "datetime" /\ b.t = "datetime"
OrdKey(x) == IF x.t = "str" THEN StrRank(x.v) ELSE NumVal(x)

\* x in y.  On two strings the operands are strings of facts and literals
\* (StrOrder without the outputs of str()), none a proper substring of
\* another one, so `in` is equality or the empty string.
PyIn(x, y) ==
    CASE y.t = "list" -> PyBool(\E i \in 1..Len(y.v) : PyEq(x, y.v[i]))
      [] y.t = "str"  -> IF x.t = "str" THEN PyBool(x.v = "" \/ x.v = y.v)
                         ELSE Raise
      [] OTHER        -> Raise

-----------------------------------------------------------------------------
(***************************************************************************)
(* The builtins of ALLOWED_FUNCTIONS and the lambdas of                    *)
(* _add_special_functions / validate_condition, applied to the argument    *)
(* lists the model draws (at most two arguments, no nested lists).         *)
(* A callable is [name, cap]: cap is what a lambda reads from the clock.   *)
(***************************************************************************)
Builtin(name) == PyFunc([name |-> name, cap |-> 0])
Lambda(name, cap) == PyFunc([name |-> name, cap |-> cap])

Digit == <<"0", "1", "2", "3", "4", "5", "6", "7", "8", "9">>
RECURSIVE IntStr(_)
IntStr(n) ==
    IF n < 0 THEN "-" \o IntStr(-n)
    ELSE IF n < 10 THEN Digit[n + 1]
    ELSE IntStr(n \div 10) \o Digit[(n % 10) + 1]

\* str(x) of a scalar; other objects print as an opaque representation
StrOf(x) ==
    CASE x.t = "str"  -> x.v
      [] x.t = "int"  -> IntStr(x.v)
      [] x.t = "bool" -> IF x.v THEN "True" ELSE "False"
      [] x.t = "none" -> "None"
      [] OTHER        -> "<repr>"

\* int(s) / float(s) of a string of the model: only "5" is numeric
StrIsNumeric(s) == s = "5"
StrNumber(s) == 5

\* min(s) / max(s) of a string of the model: its least / greatest character
MinChar(s) ==
    CASE s = "ART" -> "A" [] s = "False" -> "F" [] s = "None" -> "N"
      [] s = "True" -> "T" [] s = "si" -> "i" [] s = "validated" -> "a"
      [] s = "<repr>" -> "<" [] s = "linea1" -> "1" [] OTHER -> s
MaxChar(s) ==
    CASE s = "ART" -> "T" [] s = "False" -> "s" [] s = "None" -> "o"
      [] s = "True" -> "u" [] s = "si" -> "s" [] s = "validated" -> "v"
      [] s = "<repr>" -> "r" [] s = "linea1" -> "n" [] OTHER -> s

\* min / max of a non-empty sequence of values: TypeError unless all ordered
Extreme(q, wantMax) ==
    IF \E i, j \in 1..Len(q) : i # j /\ ~Ordered(q[i], q[j]) THEN Raise
    ELSE LET best == CHOOSE i \in 1..Len(q) :
                 /\ \A j \in 1..Len(q) :
                        IF wantMax THEN OrdKey(q[j]) <= OrdKey(q[i])
                        ELSE OrdKey(q[i]) <= OrdKey(q[j])
                 /\ \A j \in 1..(i - 1) : OrdKey(q[j]) # OrdKey(q[i])
         IN  q[best]

MinMax(args, wantMax) ==
    IF Len(args) = 0 THEN Raise
    ELSE IF Len(args) = 1
    THEN CASE args[1].t = "list" ->
                 IF Len(args[1].v) = 0 THEN Raise
                 ELSE Extreme(args[1].v, wantMax)
           [] args[1].t = "str" ->
                 IF args[1].v = "" THEN Raise
                 ELSE PyStr(IF wantMax THEN MaxChar(args[1].v)
                            ELSE MinChar(args[1].v))
           [] OTHER -> Raise
    ELSE Extreme(args, wantMax)

ToNumber(args, asFloat) ==
    LET mk(n) == IF asFloat THEN PyFloat(n) ELSE PyInt(n) IN
    IF Len(args) = 0 THEN mk(0)
    ELSE IF Len(args) > 1 THEN Raise
    ELSE CASE IsNum(args[1]) -> mk(NumVal(args[1]))
           [] args[1].t = "str" ->
                 IF StrIsNumeric(args[1].v) THEN mk(StrNumber(args[1].v))
                 ELSE Raise
           [] OTHER -> Raise

\* func(*args) for a callable value fn
ApplyFunc(fn, args) ==
    LET n == fn.v.name
        one == Len(args) = 1
    IN
    CASE n = "len" ->
            IF one /\ args[1].t \in {"list", "str"}
            THEN PyInt(Len(args[1].v)) ELSE Raise
      [] n = "str" ->
            IF Len(args) = 0 THEN PyStr("")
            ELSE IF one THEN PyStr(StrOf(args[1])) ELSE Raise
      [] n = "int"   -> ToNumber(args, FALSE)
      [] n = "float" -> ToNumber(args, TRUE)
      [] n = "bool" ->
            IF Len(args) = 0 THEN PyBool(FALSE)
            ELSE IF one THEN PyBool(Truthy(args[1])) ELSE Raise
      [] n = "abs" ->
            IF one /\ IsNum(args[1])
            THEN (IF args[1].t = "float" THEN PyFloat(IF args[1].v < 0 THEN -args[1].v ELSE args[1].v)
                  ELSE PyInt(IF NumVal(args[1]) < 0 THEN -NumVal(args[1]) ELSE NumVal(args[1])))
            ELSE Raise
      [] n = "min" -> MinMax(args, FALSE)
      [] n = "max" -> MinMax(args, TRUE)
      \* lambda date: (datetime.now() - date).days if date else 999
      \* (hours_since alike, in hours); cap is the day datetime.now() falls on
      [] n = "days_since" ->
            IF ~one THEN Raise
            ELSE IF ~Truthy(args[1]) THEN PyInt(999)
            ELSE IF args[1].t = "datetime" THEN PyInt(fn.v.cap - args[1].v)
            ELSE Raise
      [] n = "hours_since" ->
            IF ~one THEN Raise
            ELSE IF ~Truthy(args[1]) THEN PyInt(999)
            ELSE IF args[1].t = "datetime"
                 THEN PyFloat(24 * (fn.v.cap - args[1].v))
            ELSE Raise
      \* lambda: datetime.now().weekday() >= 5; cap is 1 on a weekend
      [] n = "is_weekend" ->
            IF Len(args) = 0 THEN PyBool(fn.v.cap = 1) ELSE Raise
      \* the test lambdas of validate_condition: lambda x: 24, lambda x: 1,
      \* lambda: False
      [] n = "test_hours_since" -> IF one THEN PyInt(24) ELSE Raise
      [] n = "test_days_since"  -> IF one THEN PyInt(1) ELSE Raise
      [] n = "test_is_weekend"  ->
            IF Len(args) = 0 THEN PyBool(FALSE) ELSE Raise
      [] OTHER -> Raise

-----------------------------------------------------------------------------
(***************************************************************************)
(* Expressions.  ast.parse is the Python library's; an expression text is  *)
(* given by what ast.parse(text, mode='eval') makes of it: a tree of       *)
(* nodes, or the node ParseError when it raises SyntaxError (an import,    *)
(* an assignment, `duracion === 5`).  Every node has the same fields:      *)
(*   k     the ast class,                                                  *)
(*   name  the id of a Name, the operator of a BoolOp / UnaryOp,           *)
(*   ops   the operators of a Compare,                                     *)
(*   val   the value of a Constant,                                        *)
(*   kids  the child expressions the class holds, in source order          *)
(*         (Compare: left then the comparators; Call: func then the args), *)
(*   kws   the values of the keyword arguments of a Call.                  *)
(***************************************************************************)
Node(k, name, ops, val, kids, kws) ==
    [k |-> k, name |-> name, ops |-> ops, val |-> val, kids |-> kids, kws |-> kws]
Const(v)            == Node("Constant", "", <<>>, v, <<>>, <<>>)
Name(id)            == Node("Name", id, <<>>, PyNone, <<>>, <<>>)
ListNode(items)     == Node("List", "", <<>>, PyNone, items, <<>>)
Compare(l, ops, cs) == Node("Compare", "", ops, PyNone, <<l>> \o cs, <<>>)
BoolOp(op, values)  == Node("BoolOp", op, <<>>, PyNone, values, <<>>)
UnaryOp(op, x)      == Node("UnaryOp", op, <<>>, PyNone, <<x>>, <<>>)
BinOp(op, l, r)     == Node("BinOp", op, <<>>, PyNone, <<l, r>>, <<>>)
CallNode(f, args, kws) == Node("Call", "", <<>>, PyNone, <<f>> \o args, kws)
\* any other ast class: Attribute, Subscript, BinOp, Lambda, ListComp,
\* IfExp, Starred, ...
OtherNode(k, kids)  == Node(k, "", <<>>, PyNone, kids, <<>>)
ParseError          == Node("SyntaxError", "", <<>>, PyNone, <<>>, <<>>)
\* the empty or all-blank text (ast.parse raises SyntaxError on it too), also
\* standing for an absent activation_condition
EmptyText           == Node("Empty", "", <<>>, PyNone, <<>>, <<>>)

\* ALLOWED_FUNCTIONS
ALLOWED_FUNCTIONS == {"len", "str", "int", "float", "bool", "abs", "min", "max"}
\* the comparison operators of ALLOWED_OPERATORS (ast.Is, ast.IsNot are not)
AllowedCompareOps == {"Lt", "LtE", "Gt", "GtE", "Eq", "NotEq", "In", "NotIn"}

\* facts.get(name, None)
FactGet(f, name) == IF name \in DOMAIN f THEN f[name] ELSE PyNone

\* ALLOWED_OPERATORS[type(op)](left, right) for a comparison operator
CompareOp(op, a, b) ==
    CASE op = "Eq"    -> PyBool(PyEq(a, b))
      [] op = "NotEq" -> PyBool(~PyEq(a, b))
      [] op = "In"    -> PyIn(a, b)
      [] op = "NotIn" -> IF IsRaise(PyIn(a, b)) THEN Raise
                         ELSE PyBool(~PyIn(a, b).v)
      [] OTHER ->
            IF ~Ordered(a, b) THEN Raise
            ELSE CASE op = "Lt"  -> PyBool(OrdKey(a) < OrdKey(b))
                   [] op = "LtE" -> PyBool(OrdKey(a) <= OrdKey(b))
                   [] op = "Gt"  -> PyBool(OrdKey(a) > OrdKey(b))
                   [] op = "GtE" -> PyBool(OrdKey(a) >= OrdKey(b))

\* lambda x, y: x and y  /  lambda x, y: x or y
BoolFold(op, x, y) ==
    IF op = "And" THEN (IF Truthy(x) THEN y ELSE x)
    ELSE (IF Truthy(x) THEN x ELSE y)

RECURSIVE FoldValues(_, _, _)
FoldValues(op, acc, rest) ==
    IF rest = <<>> THEN acc
    ELSE FoldValues(op, BoolFold(op, acc, Head(rest)), Tail(rest))

\* The result of evaluating a node: its value (or Raise) and the names of
\* the functions that were called on the way.
Res(val, calls) == [val |-> val, calls |-> calls]

RECURSIVE _eval_node(_, _), EvalSeq(_, _), CompareChain(_, _, _, _, _, _)

\* [self._eval_node(x) for x in nodes]: left to right, up to the first raise
EvalSeq(nodes, f) ==
    IF nodes = <<>> THEN [vals |-> <<>>, raised |-> FALSE, calls |-> {}]
    ELSE LET h == _eval_node(Head(nodes), f) IN
         IF IsRaise(h.val)
         THEN [vals |-> <<>>, raised |-> TRUE, calls |-> h.calls]
         ELSE LET r == EvalSeq(Tail(nodes), f) IN
              [vals |-> <<h.val>> \o r.vals, raised |-> r.raised,
               calls |-> h.calls \cup r.calls]

\* the loop of the Compare branch: `result and OP(left, right)` applies OP
\* only while result is true
CompareChain(left, ops, comps, result, f, calls) ==
    IF ops = <<>> THEN Res(PyBool(result), calls)
    ELSE LET r == _eval_node(Head(comps), f) IN
         IF IsRaise(r.val) THEN Res(Raise, calls \cup r.calls)
         ELSE IF Head(ops) \notin AllowedCompareOps
         THEN Res(Raise, calls \cup r.calls)
         ELSE LET c == IF result THEN CompareOp(Head(ops), left, r.val)
                       ELSE PyBool(FALSE)
              IN  IF IsRaise(c) THEN Res(Raise, calls \cup r.calls)
                  ELSE CompareChain(r.val, Tail(ops), Tail(comps), c.v, f,
                                    calls \cup r.calls)

_eval_node(node, f) ==
    CASE node.k = "Constant" -> Res(node.val, {})
      [] node.k = "Name" ->
            IF node.name \in ALLOWED_FUNCTIONS
            THEN Res(Builtin(node.name), {})
            ELSE Res(FactGet(f, node.name), {})
      [] node.k = "List" ->
            LET items == EvalSeq(node.kids, f) IN
            IF items.raised THEN Res(Raise, items.calls)
            ELSE Res(PyList(items.vals), items.calls)
      [] node.k = "Compare" ->
            LET l == _eval_node(node.kids[1], f) IN
            IF IsRaise(l.val) THEN l
            ELSE CompareChain(l.val, node.ops, Tail(node.kids), TRUE, f, l.calls)
      [] node.k = "BoolOp" ->
            IF node.name \notin {"And", "Or"} THEN Res(Raise, {})
            ELSE LET values == EvalSeq(node.kids, f) IN
                 IF values.raised THEN Res(Raise, values.calls)
                 ELSE Res(FoldValues(node.name, values.vals[1], Tail(values.vals)),
                          values.calls)
      [] node.k = "UnaryOp" ->
            IF node.name # "Not" THEN Res(Raise, {})
            ELSE LET x == _eval_node(node.kids[1], f) IN
                 IF IsRaise(x.val) THEN x
                 ELSE Res(PyBool(~Truthy(x.val)), x.calls)
      [] node.k = "Call" ->
            LET func == node.kids[1]
                fname == func.name
                fn == IF fname \in ALLOWED_FUNCTIONS THEN Builtin(fname)
                      ELSE FactGet(f, fname)
            IN
            IF func.k # "Name" THEN Res(Raise, {})
            ELSE IF fname \in ALLOWED_FUNCTIONS
                    \/ (fname \in DOMAIN f /\ f[fname].t = "func")
            THEN LET args == EvalSeq(Tail(node.kids), f) IN
                 IF args.raised THEN Res(Raise, args.calls)
                 ELSE Res(ApplyFunc(fn, args.vals), args.calls \cup {fname})
            ELSE Res(Raise, {})
      [] OTHER -> Res(Raise, {})

\* SafeExpressionEvaluator(f).evaluate(text): the value, whether the except
\* branch was taken (the evaluation failure, which returns False), the
\* functions called, and the fact environment afterwards
evaluate(node, f) ==
    LET r == IF node.k \in {"SyntaxError", "Empty"} THEN Res(Raise, {})
             ELSE _eval_node(node, f)
    IN  [value  |-> IF IsRaise(r.val) THEN PyBool(FALSE) ELSE r.val,
         failed |-> IsRaise(r.val),
         calls  |-> r.calls,
         factsAfter |-> f]

-----------------------------------------------------------------------------
(***************************************************************************)
(* Action texts.  A text is a sequence of tokens: each token is one of the *)
(* characters the code looks for -- ( ) , ' " and the blank -- or a word,  *)
(* a run of other characters.  split, strip, startswith, endswith and      *)
(* count only look at those characters, so they act on tokens as they act  *)
(* on the characters.                                                      *)
(***************************************************************************)
RECURSIVE Join(_)
Join(q) == IF q = <<>> THEN "" ELSE Head(q) \o Join(Tail(q))

Has(q, tok) == \E i \in 1..Len(q) : q[i] = tok
Count(q, tok) == Cardinality({i \in 1..Len(q) : q[i] = tok})
FirstPos(q, tok) == CHOOSE i \in 1..Len(q) :
                        q[i] = tok /\ \A j \in 1..(i - 1) : q[j] # tok
LastPos(q, tok)  == CHOOSE i \in 1..Len(q) :
                        q[i] = tok /\ \A j \in (i + 1)..Len(q) : q[j] # tok

\* text.split(tok)[0]
BeforeFirst(q, tok) == IF Has(q, tok) THEN SubSeq(q, 1, FirstPos(q, tok) - 1) ELSE q
\* text.split(tok, 1)[1], for a text that holds tok
AfterFirst(q, tok)  == SubSeq(q, FirstPos(q, tok) + 1, Len(q))
\* text.rsplit(tok, 1)[0]
BeforeLast(q, tok)  == IF Has(q, tok) THEN SubSeq(q, 1, LastPos(q, tok) - 1) ELSE q

\* text.strip()
RECURSIVE LStrip(_), RStrip(_)
LStrip(q) == IF q # <<>> /\ Head(q) = " " THEN LStrip(Tail(q)) ELSE q
RStrip(q) == IF q # <<>> /\ q[Len(q)] = " "
             THEN RStrip(SubSeq(q, 1, Len(q) - 1)) ELSE q
Strip(q)  == RStrip(LStrip(q))

\* InferenceEngine._extract_string_arg
_extract_string_arg(arg_str) ==
    LET a == Strip(arg_str) IN
    IF a # <<>> /\ a[1] = "\"" /\ a[Len(a)] = "\"" THEN SubSeq(a, 2, Len(a) - 1)
    ELSE IF a # <<>> /\ a[1] = "'" /\ a[Len(a)] = "'" THEN SubSeq(a, 2, Len(a) - 1)
    ELSE a

\* self.allowed_actions of RulesManager
allowed_actions == {"add_observacion", "mark_sanction", "require_approval", "set_fact"}

\* RulesManager.validate_action: the ok flag of the returned pair
validate_action(action) ==
    LET func_name == Join(Strip(BeforeFirst(action, "("))) IN
    IF action = <<>> \/ Strip(action) = <<>> THEN FALSE
    ELSE IF ~Has(action, "(") \/ ~Has(action, ")") THEN FALSE
    ELSE IF func_name \notin allowed_actions THEN FALSE
    ELSE IF func_name = "add_observacion"
         THEN Has(action, "'") \/ Has(action, "\"")
    ELSE IF func_name = "set_fact" THEN Count(action, ",") = 1
    ELSE TRUE

\* f with f[name] = value inserted or overwritten
FactSet(f, name, value) ==
    [k \in DOMAIN f \cup {name} |-> IF k = name THEN value ELSE f[k]]

\* facts['observaciones'].append(...) raises: the fact is there and is no list
ObsAppendFails(f) ==
    "observaciones" \in DOMAIN f /\ f["observaciones"].t # "list"

\* InferenceEngine._add_observacion, when the append does not raise; the
\* timestamp of the observation is left out
_add_observacion(f, message, rule) ==
    LET f1 == IF "observaciones" \in DOMAIN f THEN f
              ELSE FactSet(f, "observaciones", PyList(<<>>))
        obs == PyDict([message |-> message, severity |-> rule.severity,
                       rule_id |-> rule.id])
    IN  FactSet(f1, "observaciones", PyList(Append(f1["observaciones"].v, obs)))

\* InferenceEngine._mark_sanction
\* a _mark_sanction that records the reason only
MarkSanctionReasonOnly(f, rule) == FactSet(f, "sancion_motivo", PyStr(rule.name))
_mark_sanction(f, rule) ==
    FactSet(FactSet(f, "sancion_aplicada", PyBool(TRUE)),
            "sancion_motivo", PyStr(rule.name))

\* InferenceEngine._require_approval
_require_approval(f, rule) ==
    FactSet(FactSet(f, "requiere_aprobacion", PyBool(TRUE)),
            "aprobacion_motivo", PyStr(rule.name))

\* What _execute_action did: the returned summary (PyNone for None), the
\* facts afterwards and the branch taken:
\*   "executed"      an action ran and its summary is returned,
\*   "unrecognised"  the else branch: unknown function name,
\*   "noop"          the text has no ( ) pair, or set_fact without two parts,
\*   "error"         the except branch.
ExecRes(result, f, path) == [result |-> result, facts |-> f, path |-> path]

\* InferenceEngine._execute_action
_execute_action(action, rule, f) ==
    LET func_name == Join(Strip(BeforeFirst(action, "(")))
        args_str  == BeforeLast(AfterFirst(action, "("), ")")
    IN
    IF ~(Has(action, "(") /\ Has(action, ")")) THEN ExecRes(PyNone, f, "noop")
    ELSE CASE func_name = "add_observacion" ->
                LET message == Join(_extract_string_arg(args_str)) IN
                IF ObsAppendFails(f) THEN ExecRes(PyNone, f, "error")
                ELSE ExecRes(PyStr("Observacion agregada: " \o message),
                             _add_observacion(f, message, rule), "executed")
           [] func_name = "mark_sanction" ->
                ExecRes(PyStr("Sancion aplicada"), _mark_sanction(f, rule), "executed")
           [] func_name = "set_fact" ->
                IF Has(args_str, ",")
                THEN LET fact_name  == Join(_extract_string_arg(
                                            Strip(BeforeFirst(args_str, ","))))
                         fact_value == Join(_extract_string_arg(
                                            Strip(AfterFirst(args_str, ","))))
                     IN  ExecRes(PyStr("Hecho establecido: " \o fact_name \o " = "
                                       \o fact_value),
                                 FactSet(f, fact_name, PyStr(fact_value)), "executed")
                ELSE ExecRes(PyNone, f, "noop")
           [] func_name = "require_approval" ->
                ExecRes(PyStr("Requiere aprobacion supervisor"),
                        _require_approval(f, rule), "executed")
           [] OTHER -> ExecRes(PyNone, f, "unrecognised")

-----------------------------------------------------------------------------
(***************************************************************************)
(* RulesManager.validate_condition                                         *)
(***************************************************************************)
\* The day datetime.now() falls on.
Today == 10

\* test_facts of validate_condition
TestFacts ==
    [motivo |-> PyStr("ART"), duracion |-> PyInt(5),
     ausencias_ultimo_mes |-> PyInt(2), certificate_uploaded |-> PyBool(FALSE),
     certificate_deadline |-> PyDate(Today), validation_status |-> PyStr("validated"),
     sector |-> PyStr("linea1"), current_hour |-> PyInt(14),
     hours_since |-> Lambda("test_hours_since", 0),
     days_since |-> Lambda("test_days_since", 0),
     is_weekend |-> Lambda("test_is_weekend", 0)]

\* RulesManager.validate_condition: the ok flag of the returned pair.  The
\* except branch is dead: evaluate raises nothing.
validate_condition(condition) ==
    IF condition.k = "Empty" THEN FALSE
    ELSE evaluate(condition, TestFacts).value.t = "bool"

-----------------------------------------------------------------------------
(***************************************************************************)
(* The expressions, fact environments and action texts the single calls    *)
(* are made on.                                                            *)
(***************************************************************************)
\* InferenceEngine._add_special_functions and facts['now'], on a fact mapping
WithSpecials(f, weekend) ==
    [k \in DOMAIN f \cup {"now", "days_since", "hours_since", "is_weekend",
                          "current_hour"} |->
        CASE k = "now"          -> PyDate(Today)
          [] k = "days_since"   -> Lambda("days_since", Today)
          [] k = "hours_since"  -> Lambda("hours_since", Today)
          [] k = "is_weekend"   -> Lambda("is_weekend", weekend)
          [] k = "current_hour" -> PyInt(14)
          [] OTHER              -> f[k]]

\* fact environments as a run holds them
CallFactEnvs ==
    << WithSpecials([motivo |-> PyStr("ART"), duracion |-> PyInt(8),
                     certificate_uploaded |-> PyBool(FALSE)], 0),
       WithSpecials([motivo |-> PyStr("x"), duracion |-> PyInt(3),
                     certificate_uploaded |-> PyBool(TRUE),
                     certificate_deadline |-> PyDate(Today - 2),
                     observaciones |-> PyStr("x")], 1),
       TestFacts >>

\* leaves inside the grammar
GrammarLeaves ==
    { Const(PyInt(5)), Const(PyInt(0)), Const(PyStr("ART")), Const(PyBool(TRUE)),
      Const(PyNone), Name("duracion"), Name("motivo"), Name("certificate_uploaded"),
      Name("certificate_deadline"), Name("desconocido"), Name("is_weekend"),
      Name("len") }
\* smallest expressions outside the grammar: motivo.upper, motivo[0],
\* duracion + 5, lambda: 5, [x for x in motivo], 5 if duracion else 0, -duracion
OutsideLeaves ==
    { OtherNode("Attribute", <<Name("motivo")>>),
      OtherNode("Subscript", <<Name("motivo"), Const(PyInt(0))>>),
      BinOp("Add", Name("duracion"), Const(PyInt(5))),
      OtherNode("Lambda", <<Const(PyInt(5))>>),
      OtherNode("ListComp", <<Name("x"), Name("motivo")>>),
      OtherNode("IfExp", <<Name("duracion"), Const(PyInt(5)), Const(PyInt(0))>>),
      UnaryOp("USub", Name("duracion")) }
Leaves == GrammarLeaves \cup OutsideLeaves

CompareOps == AllowedCompareOps \cup {"Is", "IsNot"}
\* names called: the allow-list, callable facts, a fact that is no callable,
\* names that are nothing (foo, __import__)
CalledNames == ALLOWED_FUNCTIONS \cup
               {"is_weekend", "days_since", "hours_since", "motivo", "foo",
                "__import__"}
\* keyword values: inside and outside the grammar
KeywordValues == { Const(PyInt(5)), Name("motivo"),
                   OtherNode("Attribute", <<Name("motivo")>>),
                   CallNode(Name("__import__"), <<Const(PyStr("x"))>>, <<>>) }

\* one construct over leaves
Depth1 ==
    {Compare(a, <<op>>, <<b>>) : a \in Leaves, b \in Leaves, op \in CompareOps}
    \cup {BoolOp(op, <<a, b>>) : a \in Leaves, b \in Leaves, op \in {"And", "Or"}}
    \cup {UnaryOp("Not", a) : a \in Leaves}
    \cup {ListNode(<<a>>) : a \in Leaves}
    \cup {CallNode(Name(n), <<>>, <<>>) : n \in CalledNames}
    \cup {CallNode(Name(n), <<a>>, <<>>) : n \in CalledNames, a \in Leaves}
    \cup {CallNode(Name(n), <<a>>, <<k>>) :
              n \in CalledNames, a \in GrammarLeaves, k \in KeywordValues}
    \cup {CallNode(a, <<Const(PyInt(5))>>, <<>>) : a \in OutsideLeaves}

\* deeper expressions:
\*   motivo in ['ART'] and not certificate_uploaded
\*   0 < duracion < 5         5 > 8 < 'ART'       duracion > 5
\*   len([motivo, 5]) == 2    max(duracion, 5)    str(duracion) == '5'
\*   days_since(certificate_deadline) > 0 or is_weekend()
\*   duracion > 5 and motivo.upper          [5, motivo[0]]
\*   len('ART', key=__import__('x'))        not (motivo.upper == 'ART')
Deeper ==
    { BoolOp("And", <<Compare(Name("motivo"), <<"In">>, <<ListNode(<<Const(PyStr("ART"))>>)>>),
                      UnaryOp("Not", Name("certificate_uploaded"))>>),
      Compare(Const(PyInt(0)), <<"Lt", "Lt">>, <<Name("duracion"), Const(PyInt(5))>>),
      Compare(Const(PyInt(5)), <<"Gt", "Lt">>, <<Const(PyInt(8)), Const(PyStr("ART"))>>),
      Compare(Name("duracion"), <<"Gt">>, <<Const(PyInt(5))>>),
      Compare(CallNode(Name("len"), <<ListNode(<<Name("motivo"), Const(PyInt(5))>>)>>, <<>>),
              <<"Eq">>, <<Const(PyInt(2))>>),
      CallNode(Name("max"), <<Name("duracion"), Const(PyInt(5))>>, <<>>),
      Compare(CallNode(Name("str"), <<Name("duracion")>>, <<>>), <<"Eq">>,
              <<Const(PyStr("5"))>>),
      BoolOp("Or", <<Compare(CallNode(Name("days_since"),
                                      <<Name("certificate_deadline")>>, <<>>),
                             <<"Gt">>, <<Const(PyInt(0))>>),
                     CallNode(Name("is_weekend"), <<>>, <<>>)>>),
      BoolOp("And", <<Compare(Name("duracion"), <<"Gt">>, <<Const(PyInt(5))>>),
                      OtherNode("Attribute", <<Name("motivo")>>)>>),
      ListNode(<<Const(PyInt(5)), OtherNode("Subscript", <<Name("motivo"), Const(PyInt(0))>>)>>),
      CallNode(Name("len"), <<Const(PyStr("ART"))>>,
               <<CallNode(Name("__import__"), <<Const(PyStr("x"))>>, <<>>)>>),
      UnaryOp("Not", Compare(OtherNode("Attribute", <<Name("motivo")>>), <<"Eq">>,
                             <<Const(PyStr("ART"))>>)) }

\* the arithmetic operators of ALLOWED_OPERATORS
ArithmeticOps == {"Add", "Sub", "Mult", "Div", "Mod", "Pow"}
\* duracion + 2 > 0, duracion % 2 == 0, duracion / 2 > 0, ...
Arithmetic ==
    {Compare(BinOp(op, Name("duracion"), Const(PyInt(2))), <<cmp>>, <<Const(PyInt(0))>>) :
        op \in ArithmeticOps, cmp \in {"Eq", "Gt"}}

Expressions == Leaves \cup Depth1 \cup Deeper \cup Arithmetic \cup {ParseError, EmptyText}

\* The longest action text drawn, in tokens.
MaxActionLen == 4
ActionTokens == {"(", ")", ",", "'", " ", "set_fact", "mark_sanction",
                 "add_observacion", "foo"}
\* the texts of n tokens
TextsOfLen(n) == [1..n -> ActionTokens]
ActionTexts == UNION {TextsOfLen(n) : n \in 0..MaxActionLen}

\* the rule an action text of a single call belongs to
CallRule == [id |-> "r1", name |-> "R1", severity |-> "warning"]

-----------------------------------------------------------------------------
(***************************************************************************)
(* Idle values of the three groups of variables.                           *)
(***************************************************************************)
NoFacts == [k \in {} |-> PyNone]
NoEval  == [value |-> PyNone, failed |-> FALSE, calls |-> {}, factsAfter |-> NoFacts]

InferIdle ==
    /\ rule_file = <<>> /\ rules = <<>> /\ initial_facts = NoFacts
    /\ facts = NoFacts /\ steps = <<>> /\ conclusions = <<>>
    /\ actions_taken = <<>> /\ iteration = 0 /\ max_iterations = 0
    /\ pc = "off" /\ runs = <<>>
CallIdle ==
    /\ call = "off" /\ expr = EmptyText /\ callFacts = NoFacts /\ evalOut = NoEval
    /\ actionText = <<>> /\ valid = FALSE /\ execOut = ExecRes(PyNone, NoFacts, "none")
    /\ mgrIn = <<>>
RetrIdle == findIn = <<>> /\ findOut = <<>> /\ recIn = <<>> /\ recOut = <<>>
CbrIdle ==
    /\ cases = <<>> /\ db = <<>> /\ nextRowId = 0 /\ lastStore = <<>>
    /\ simIn = <<>> /\ simOut = <<>> /\ RetrIdle

-----------------------------------------------------------------------------
(***************************************************************************)
(* InferenceEngine.  A rule is a record                                    *)
(*   [id, name, condition, action, priority, severity, activation_condition]*)
(* with condition and activation_condition expressions (EmptyText for no   *)
(* activation_condition) and action an action text.                        *)
(***************************************************************************)
\* sorted(rules, key=priority): stable, so ties keep the order of definition
\* a sort that is not stable: a rule goes before the rules of its priority
RECURSIVE InsertBeforeTies(_, _)
InsertBeforeTies(sorted, r) ==
    IF sorted = <<>> THEN <<r>>
    ELSE IF Head(sorted).priority < r.priority
         THEN <<Head(sorted)>> \o InsertBeforeTies(Tail(sorted), r)
         ELSE <<r>> \o sorted

RECURSIVE InsertByPriority(_, _)
InsertByPriority(sorted, r) ==
    IF sorted = <<>> THEN <<r>>
    ELSE IF Head(sorted).priority <= r.priority
         THEN <<Head(sorted)>> \o InsertByPriority(Tail(sorted), r)
         ELSE <<r>> \o sorted

RECURSIVE SortedByPriority(_)
SortedByPriority(q) ==
    IF q = <<>> THEN <<>>
    ELSE InsertByPriority(SortedByPriority(SubSeq(q, 1, Len(q) - 1)), q[Len(q)])

\* a load that keeps the order of the file
LoadRulesUnsorted(q) == q

\* InferenceEngine._load_rules on a rule file holding the rules q
_load_rules(q) == SortedByPriority(q)

\* f"rule_{rule['id']}_executed"
ExecutedKey(id) == "rule_" \o id \o "_executed"

\* InferenceEngine._should_evaluate_rule, as the `if` of the scan reads it
\* a _should_evaluate_rule that leaves the activation_condition out
ShouldEvaluateUngated(rule, f) == ~Truthy(FactGet(f, ExecutedKey(rule.id)))
_should_evaluate_rule(rule, f) ==
    IF Truthy(FactGet(f, ExecutedKey(rule.id))) THEN FALSE
    ELSE IF rule.activation_condition.k # "Empty"
         THEN Truthy(evaluate(rule.activation_condition, f).value)
    ELSE TRUE

\* facts_used of an InferenceStep: the scalar facts
ScalarFacts(f) ==
    [k \in {n \in DOMAIN f : f[n].t \in {"str", "int", "float", "bool", "none"}}
        |-> f[k]]

\* InferenceEngine._evaluate_rule: the InferenceStep (its timestamp left out)
_evaluate_rule(rule, f) ==
    [rule_id |-> rule.id, rule_name |-> rule.name, condition |-> rule.condition,
     condition_result |-> Truthy(evaluate(rule.condition, f).value),
     action |-> rule.action, facts_used |-> ScalarFacts(f)]

\* The for loop of forward_chaining: the index of the first rule, from index
\* i on, that is evaluated and whose step has condition_result true; 0 if
\* the scan ends without one.
\* a scan that a failing condition ends
RECURSIVE ScanStopsAtFailure(_, _, _)
ScanStopsAtFailure(i, rs, f) ==
    IF i > Len(rs) THEN 0
    ELSE IF _should_evaluate_rule(rs[i], f) /\ evaluate(rs[i].condition, f).failed
         THEN 0
    ELSE IF _should_evaluate_rule(rs[i], f) /\ _evaluate_rule(rs[i], f).condition_result
         THEN i
    ELSE ScanStopsAtFailure(i + 1, rs, f)
\* a scan that goes on behind the rules already executed instead of
\* restarting from the top
RECURSIVE ScanPastExecuted(_, _, _)
ScanPastExecuted(i, rs, f) ==
    IF i > Len(rs) THEN 0
    ELSE IF \E j \in (i + 1)..Len(rs) : Truthy(FactGet(f, ExecutedKey(rs[j].id)))
         THEN ScanPastExecuted(i + 1, rs, f)
    ELSE IF _should_evaluate_rule(rs[i], f) /\ _evaluate_rule(rs[i], f).condition_result
         THEN i
    ELSE ScanPastExecuted(i + 1, rs, f)
\* a scan that looks at the first rule only
ScanFirstRuleOnly(i, rs, f) ==
    IF i > Len(rs) THEN 0
    ELSE IF _should_evaluate_rule(rs[i], f) /\ _evaluate_rule(rs[i], f).condition_result
         THEN i
    ELSE 0
RECURSIVE ScanFrom(_, _, _)
ScanFrom(i, rs, f) ==
    IF i > Len(rs) THEN 0
    ELSE IF _should_evaluate_rule(rs[i], f) /\ _evaluate_rule(rs[i], f).condition_result
         THEN i
    ELSE ScanFrom(i + 1, rs, f)

\* `while iteration < max_iterations`
LoopGuardOffByOne(it, cap) == it <= cap
LoopGuard(it, cap) == it < cap

\* The rule set of the run is drawn from rule bodies, priorities and ids.
\* Longest rule file drawn.
MaxRules == 2
\* Largest max_iterations drawn, besides the default.
MaxCap == 3
\* forward_chaining(..., max_iterations: int = 100)
DefaultMaxIterations == 100

Tok_set_fact(name, value) ==
    <<"set_fact", "(", "'", name, "'", ",", " ", "'">> \o value \o <<"'", ")">>

Body(cond, act, text) == [condition |-> cond, activation_condition |-> act, action |-> text]
FlagIsSi == Compare(Name("flag"), <<"Eq">>, <<Const(PyStr("si"))>>)

\*  condition               activation    action
\*  True                    -             mark_sanction()
\*  True                    -             set_fact('flag', 'si')
\*  flag == 'si'            -             require_approval()
\*  flag == 'si'            -             set_fact('flag', 'si')
\*  True                    flag == 'si'  add_observacion('m')
\*  True                    -             set_fact('rule_r1_executed', '')
\*  True                    -             set_fact('rule_r2_executed', '')
\*  not sancion_aplicada    -             set_fact('flag', 'b')
\*  duracion > 5            -             foo(
\*  motivo.upper == 'ART'   -             mark_sanction()
RuleBodies ==
    { Body(Const(PyBool(TRUE)), EmptyText, <<"mark_sanction", "(", ")">>),
      Body(Const(PyBool(TRUE)), EmptyText, Tok_set_fact("flag", <<"si">>)),
      Body(FlagIsSi, EmptyText, <<"require_approval", "(", ")">>),
      Body(FlagIsSi, EmptyText, Tok_set_fact("flag", <<"si">>)),
      Body(Const(PyBool(TRUE)), FlagIsSi, <<"add_observacion", "(", "'", "m", "'", ")">>),
      Body(Const(PyBool(TRUE)), EmptyText, Tok_set_fact(ExecutedKey("r1"), <<>>)),
      Body(Const(PyBool(TRUE)), EmptyText, Tok_set_fact(ExecutedKey("r2"), <<>>)),
      Body(UnaryOp("Not", Name("sancion_aplicada")), EmptyText, Tok_set_fact("flag", <<"b">>)),
      Body(Compare(Name("duracion"), <<"Gt">>, <<Const(PyInt(5))>>), EmptyText, <<"foo", "(">>),
      Body(Compare(OtherNode("Attribute", <<Name("motivo")>>), <<"Eq">>,
                   <<Const(PyStr("ART"))>>), EmptyText, <<"mark_sanction", "(", ")">>) }
Priorities == {10, 20}

\* the i-th rule of a rule file: ids r1, r2, ... are unique
MakeRule(i, body, priority) ==
    [id |-> "r" \o IntStr(i), name |-> "R" \o IntStr(i),
     condition |-> body.condition, action |-> body.action, priority |-> priority,
     severity |-> "warning", activation_condition |-> body.activation_condition]

RECURSIVE RuleFilesOfLen(_)
RuleFilesOfLen(n) ==
    IF n = 0 THEN {<<>>}
    ELSE {Append(q, MakeRule(n, b, p)) :
              q \in RuleFilesOfLen(n - 1), b \in RuleBodies, p \in Priorities}
RuleFiles == UNION {RuleFilesOfLen(n) : n \in 0..MaxRules}

\* caller-supplied facts; none uses a reserved name.  No rule of RuleBodies
\* reads the clock, so Start takes a weekday (is_weekend() false).
InitialFacts ==
    { [duracion |-> PyInt(8), motivo |-> PyStr("ART")],
      [duracion |-> PyInt(3), motivo |-> PyStr("x"), flag |-> PyStr("si")] }

Caps == {0, 1, MaxCap, DefaultMaxIterations}

\* InferenceEngine.__init__
Init ==
    /\ CallIdle /\ CbrIdle
    /\ rule_file \in RuleFiles
    /\ rules = _load_rules(rule_file)
    /\ initial_facts = NoFacts /\ facts = NoFacts
    /\ steps = <<>> /\ conclusions = <<>> /\ actions_taken = <<>>
    /\ iteration = 0 /\ max_iterations = 0
    /\ pc = "idle" /\ runs = <<>>

\* forward_chaining(f, cap) up to the while loop (lines 166-179)
Begin(f, cap) ==
    /\ initial_facts' = f
    /\ facts' = WithSpecials(f, 0)
    /\ max_iterations' = cap
    /\ steps' = <<>> /\ conclusions' = <<>> /\ actions_taken' = <<>>
    /\ iteration' = 0
    /\ pc' = "loop"
    /\ UNCHANGED <<rule_file, rules, runs, callVars, cbrVars>>

Start ==
    /\ pc = "idle"
    /\ \E f \in InitialFacts, cap \in Caps : Begin(f, cap)

\* one pass of the while loop (lines 180-206): a scan of the rules, the
\* firing of the first rule found, or the break when none is
Iterate ==
    /\ pc = "loop"
    /\ LoopGuard(iteration, max_iterations)
    /\ iteration' = iteration + 1
    /\ LET i == ScanFrom(1, rules, facts) IN
       IF i = 0
       THEN /\ pc' = "exit"
            /\ UNCHANGED <<facts, steps, conclusions, actions_taken>>
       ELSE LET rule == rules[i]
                step == _evaluate_rule(rule, facts)
                r    == _execute_action(rule.action, rule, facts)
            IN  /\ steps' = Append(steps, step)
                /\ IF Truthy(r.result)
                   THEN /\ actions_taken' = Append(actions_taken, r.result.v)
                        /\ conclusions' = Append(conclusions, step.rule_name)
                   ELSE UNCHANGED <<actions_taken, conclusions>>
                /\ facts' = FactSet(r.facts, ExecutedKey(rule.id), PyBool(TRUE))
                /\ pc' = "loop"
    /\ UNCHANGED <<rule_file, rules, initial_facts, max_iterations, runs, callVars, cbrVars>>

\* the loop is left and the InferenceResult returned (lines 208-217): its
\* steps, conclusions, actions_taken are the variables, its final_facts a
\* copy of facts
Return ==
    /\ \/ pc = "exit"
       \/ pc = "loop" /\ ~LoopGuard(iteration, max_iterations)
    /\ pc' = "returned"
    /\ UNCHANGED <<rule_file, rules, initial_facts, facts, steps, conclusions,
                   actions_taken, iteration, max_iterations, runs, callVars, cbrVars>>

Next == Start \/ Iterate \/ Return
Spec == Init /\ [][Next]_vars

-----------------------------------------------------------------------------
(***************************************************************************)
(* Claims on forward_chaining.                                             *)
(***************************************************************************)
\* the position of the rule with this id in the rule file
FilePos(id) == CHOOSE i \in 1..Len(rule_file) : rule_file[i].id = id

\* A rule is eligible in facts f: not marked executed, its
\* activation_condition (if any) true, its condition true.
Eligible(rule, f) ==
    /\ ~Truthy(FactGet(f, ExecutedKey(rule.id)))
    /\ rule.activation_condition.k # "Empty" =>
           Truthy(evaluate(rule.activation_condition, f).value)
    /\ Truthy(evaluate(rule.condition, f).value)

\* C1: a run terminates within the cap: every step of the call at the loop
\* is a pass that counts one iteration up or the return, passes never exceed
\* max_iterations and each adds at most one step, so the result holds at
\* most max_iterations steps, at the cap too.
C1_TerminatesWithinCap ==
    /\ [](Len(steps) <= iteration /\ iteration <= max_iterations)
    /\ [](pc = "returned" => Len(steps) <= max_iterations)
    /\ [][pc = "loop" => (iteration' = iteration + 1 \/ pc' = "returned")]_vars

\* C1 witness: a run cut off at the cap returned its partial result
C1_Witness_CapReached ==
    /\ pc = "returned" /\ max_iterations = MaxCap /\ Len(steps) = MaxCap
    /\ \E i \in 1..Len(rules) : Eligible(rules[i], facts)

\* C2: within a run no rule fires twice: no two steps carry the same rule id.
C2_NoRuleFiresTwice ==
    \A i, j \in 1..Len(steps) : i # j => steps[i].rule_id # steps[j].rule_id

\* the facts the first scan reads
FactsAtStart == WithSpecials(initial_facts, 0)
ConditionTrueInitially(rule) == Truthy(evaluate(rule.condition, FactsAtStart).value)
ActivationTrueInitially(rule) ==
    rule.activation_condition.k = "Empty"
    \/ Truthy(evaluate(rule.activation_condition, FactsAtStart).value)

\* in steps, every step of rule b comes after a step of rule a
StepBefore(a, b) ==
    \A j \in 1..Len(steps) :
        steps[j].rule_id = b.id => \E i \in 1..(j - 1) : steps[i].rule_id = a.id

FirstInPriorityOrder(f) ==
    CHOOSE r \in 1..Len(rule_file) :
        /\ Eligible(rule_file[r], f)
        /\ \A o \in 1..Len(rule_file) :
              (o # r /\ Eligible(rule_file[o], f)) =>
                  \/ rule_file[r].priority < rule_file[o].priority
                  \/ rule_file[r].priority = rule_file[o].priority /\ r < o

\* C4: in every iteration the rule that fires is the first eligible rule in
\* ascending priority (ties in definition order) in the current facts; one
\* rule fires per iteration, none when no rule is eligible.
C4_FirstEligibleRuleFires ==
    [][ (pc = "loop" /\ iteration' = iteration + 1) =>
          IF \E r \in 1..Len(rule_file) : Eligible(rule_file[r], facts)
          THEN /\ Len(steps') = Len(steps) + 1
               /\ SubSeq(steps', 1, Len(steps)) = steps
               /\ steps'[Len(steps')].rule_id = rule_file[FirstInPriorityOrder(facts)].id
               /\ Truthy(FactGet(facts', ExecutedKey(steps'[Len(steps')].rule_id)))
          ELSE steps' = steps /\ pc' = "exit" ]_vars

\* C4 witness: a rule defined later fired first, by its priority, and a rule
\* defined before it fired in a later iteration
C4_Witness_LaterRuleFirst ==
    /\ Len(rule_file) >= 2 /\ Len(steps) >= 2
    /\ \E i, j \in 1..Len(steps) :
          /\ i < j /\ FilePos(steps[i].rule_id) > FilePos(steps[j].rule_id)
          /\ rule_file[FilePos(steps[i].rule_id)].priority
                 < rule_file[FilePos(steps[j].rule_id)].priority

-----------------------------------------------------------------------------
(***************************************************************************)
(* SpecEval: one call of evaluate, validate_condition, validate_action or  *)
(* _execute_action on an input drawn from the sets above.                  *)
(***************************************************************************)
InitEval ==
    /\ InferIdle /\ CbrIdle
    /\ call = "none" /\ expr = EmptyText /\ callFacts = NoFacts /\ evalOut = NoEval
    /\ actionText = <<>> /\ valid = FALSE /\ execOut = ExecRes(PyNone, NoFacts, "none")
    /\ mgrIn = <<>>

Evaluate ==
    /\ call = "none"
    /\ \E e \in Expressions, i \in 1..Len(CallFactEnvs) :
          /\ expr' = e
          /\ callFacts' = CallFactEnvs[i]
          /\ evalOut' = evaluate(e, CallFactEnvs[i])
    /\ call' = "evaluate"
    /\ UNCHANGED <<actionText, valid, execOut, mgrIn, inferVars, cbrVars>>

ValidateCondition ==
    /\ call = "none"
    /\ \E e \in Expressions :
          /\ expr' = e
          /\ valid' = validate_condition(e)
    /\ call' = "validate_condition"
    /\ UNCHANGED <<callFacts, evalOut, actionText, execOut, mgrIn, inferVars, cbrVars>>

ValidateAction ==
    /\ call = "none"
    /\ \E a \in ActionTexts :
          /\ actionText' = a
          /\ valid' = validate_action(a)
    /\ call' = "validate_action"
    /\ UNCHANGED <<expr, callFacts, evalOut, execOut, mgrIn, inferVars, cbrVars>>

ExecuteAction ==
    /\ call = "none"
    /\ \E a \in ActionTexts, i \in 1..Len(CallFactEnvs) :
          /\ actionText' = a
          /\ callFacts' = CallFactEnvs[i]
          /\ execOut' = _execute_action(a, CallRule, CallFactEnvs[i])
    /\ call' = "_execute_action"
    /\ UNCHANGED <<expr, evalOut, valid, mgrIn, inferVars, cbrVars>>

NextEval == Evaluate \/ ValidateCondition \/ ValidateAction \/ ExecuteAction
SpecEval == InitEval /\ [][NextEval]_vars

-----------------------------------------------------------------------------
(***************************************************************************)
(* Claims on the evaluator and on validation.                              *)
(***************************************************************************)
\* The constructs the grammar leaves out, as the claim lists them: attribute
\* access, subscripting, lambda, comprehension, a text that is no expression
\* (import, assignment), a call of a name that is neither on the allow-list
\* nor a callable fact -- anywhere in the expression.
RECURSIVE OutsideGrammar(_, _)
OutsideGrammar(node, f) ==
    \/ node.k \in {"Attribute", "Subscript", "Lambda", "ListComp", "SyntaxError"}
    \/ /\ node.k = "Call"
       /\ \/ node.kids[1].k # "Name"
          \/ /\ node.kids[1].name \notin ALLOWED_FUNCTIONS
             /\ FactGet(f, node.kids[1].name).t # "func"
    \/ \E i \in 1..Len(node.kids) : OutsideGrammar(node.kids[i], f)
    \/ \E i \in 1..Len(node.kws) : OutsideGrammar(node.kws[i], f)

CallableFacts(f) == {k \in DOMAIN f : f[k].t = "func"}

\* C5: an expression that holds a construct outside the grammar makes
\* evaluate end in the evaluation failure; evaluate calls only allow-listed
\* functions and callable facts and leaves the facts as they were.
C5_OutsideGrammarFails ==
    (call = "evaluate" /\ OutsideGrammar(expr, callFacts)) =>
        /\ evalOut.failed
        /\ evalOut.value = PyBool(FALSE)
        /\ evalOut.calls \subseteq ALLOWED_FUNCTIONS \cup CallableFacts(callFacts)
        /\ evalOut.factsAfter = callFacts

\* C6: validate_condition answers ok = false for an unparseable condition and
\* for one with a disallowed construct; a condition it accepts evaluates
\* without an evaluation failure in the facts of a run.
C6_AcceptedConditionEvaluates ==
    call = "validate_condition" =>
        /\ (expr.k = "SyntaxError" \/ OutsideGrammar(expr, TestFacts)) => ~valid
        /\ valid => \A i \in 1..Len(CallFactEnvs) :
                        ~evaluate(expr, CallFactEnvs[i]).failed

\* C7: an action text validate_action accepts is executed by _execute_action
\* (never its unrecognised, no-op or error branch), and a text whose function
\* name is none of the four actions is rejected.
C7_AcceptedActionExecutes ==
    call = "validate_action" =>
        /\ valid => \A i \in 1..Len(CallFactEnvs) :
               ~ObsAppendFails(CallFactEnvs[i]) =>
                   LET r == _execute_action(actionText, CallRule, CallFactEnvs[i])
                   IN  r.path = "executed" /\ r.result # PyNone
        /\ Join(Strip(BeforeFirst(actionText, "("))) \notin allowed_actions => ~valid

-----------------------------------------------------------------------------
(***************************************************************************)
(* CaseBasedLearning.  A feature value is a Python float: a multiple of    *)
(* 0.5 (validation_status is 1.0 or 0.5), held as twice the float, or one  *)
(* of the IEEE values nan and inf.  A similarity is the exact fraction     *)
(* [n, d] with d > 0, or nan.                                              *)
(***************************************************************************)
Fin(x) == [k |-> "fin", v |-> x]
NaN == [k |-> "nan", v |-> 0]
Inf == [k |-> "inf", v |-> 0]
\* val1 == val2 on floats: nan equals nothing
FloatEq(a, b) == a.k # "nan" /\ b.k # "nan" /\ a = b
\* _load_feature_weights, in hundredths
feature_weights ==
    [motivo |-> 25, duracion |-> 20, ausencias_ultimo_mes |-> 15,
     validation_status |-> 10, certificate_uploaded |-> 15, sector |-> 10,
     deadline_exceeded |-> 5]
\* the order in which the dict feature_weights is walked
FeatureOrder ==
    <<"motivo", "duracion", "ausencias_ultimo_mes", "validation_status",
      "certificate_uploaded", "sector", "deadline_exceeded">>

Frac(n, d) == [n |-> n, d |-> d]
FracNaN == Frac(0, 0)
IsNaN(a) == a.d = 0
\* a == b, a <= b and a + w * b on the floats the fractions stand for
FracEq(a, b) == ~IsNaN(a) /\ ~IsNaN(b) /\ a.n * b.d = b.n * a.d
FracLeq(a, b) == ~IsNaN(a) /\ ~IsNaN(b) /\ a.n * b.d <= b.n * a.d
FracAddScaled(a, w, b) ==
    IF IsNaN(a) \/ IsNaN(b) THEN FracNaN ELSE Frac(a.n * b.d + b.n * w * a.d, a.d * b.d)
Max3(a, b, c) == IF a >= b /\ a >= c THEN a ELSE IF b >= c THEN b ELSE c
AbsDiff(a, b) == IF a >= b THEN a - b ELSE b - a

\* max(val1, val2, 1.0) of the numeric branch
SimMaxVal(val1, val2) == Max3(val1, val2, 2)

\* feature_sim of calculate_similarity (lines 145-154)
\* a numeric branch that normalises by max(val1, 1.0)
FeatureSimOneSided(feature, val1, val2) ==
    IF feature \in {"motivo", "certificate_uploaded", "validation_status"}
    THEN Frac(IF FloatEq(val1, val2) THEN 1 ELSE 0, 1)
    ELSE IF val1.k # "fin" \/ val2.k # "fin" THEN FracNaN
    ELSE Frac(SimMaxVal(val1.v, 0) - AbsDiff(val1.v, val2.v), SimMaxVal(val1.v, 0))

\* with nan or inf on either side the numeric branch gives nan: the
\* difference is nan, or the difference and the maximum are both inf
FeatureSim(feature, val1, val2) ==
    IF feature = "motivo" THEN Frac(IF FloatEq(val1, val2) THEN 1 ELSE 0, 1)
    ELSE IF feature \in {"certificate_uploaded", "validation_status"}
    THEN Frac(IF FloatEq(val1, val2) THEN 1 ELSE 0, 1)
    ELSE IF val1.k # "fin" \/ val2.k # "fin" THEN FracNaN
    ELSE Frac(SimMaxVal(val1.v, val2.v) - AbsDiff(val1.v, val2.v),
              SimMaxVal(val1.v, val2.v))

\* the loop of calculate_similarity from the i-th feature on: similarity as
\* the fraction sim and total_weight
RECURSIVE SimLoop(_, _, _, _, _)
SimLoop(i, features1, features2, sim, total_weight) ==
    IF i > Len(FeatureOrder) THEN [similarity |-> sim, total_weight |-> total_weight]
    ELSE LET feature == FeatureOrder[i]
             weight  == feature_weights[feature]
         IN  IF feature \in DOMAIN features1 /\ feature \in DOMAIN features2
             THEN LET fs == FeatureSim(feature, features1[feature], features2[feature])
                  IN  SimLoop(i + 1, features1, features2,
                              FracAddScaled(sim, weight, fs),
                              total_weight + weight)
             ELSE SimLoop(i + 1, features1, features2, sim, total_weight)

\* CaseBasedLearning.calculate_similarity
calculate_similarity(features1, features2) ==
    IF DOMAIN features1 = {} \/ DOMAIN features2 = {} THEN Frac(0, 1)
    ELSE LET r == SimLoop(1, features1, features2, Frac(0, 1), 0) IN
         IF r.total_weight > 0
         THEN IF IsNaN(r.similarity) THEN FracNaN
              ELSE Frac(r.similarity.n, r.similarity.d * r.total_weight)
         ELSE Frac(0, 1)

\* datetime.isoformat()
IsoFormat(d) == "2024-01-" \o IntStr(d)

\* serializable_facts of store_case: timestamps as ISO strings
SerializableFacts(f) ==
    [k \in DOMAIN f |-> IF f[k].t = "datetime" THEN PyStr(IsoFormat(f[k].v)) ELSE f[k]]

\* sorted(labels) for labels of LabelOrder
LabelOrder == <<"a1", "a2", "r1", "r2">>
LabelRank(x) == CHOOSE i \in 1..Len(LabelOrder) : LabelOrder[i] = x
RECURSIVE InsertLabel(_, _)
InsertLabel(sorted, x) ==
    IF sorted = <<>> THEN <<x>>
    ELSE IF LabelRank(Head(sorted)) <= LabelRank(x)
         THEN <<Head(sorted)>> \o InsertLabel(Tail(sorted), x)
         ELSE <<x>> \o sorted
RECURSIVE SortedLabels(_)
SortedLabels(q) ==
    IF q = <<>> THEN <<>>
    ELSE InsertLabel(SortedLabels(SubSeq(q, 1, Len(q) - 1)), q[Len(q)])

\* an id computed from the rules and the actions alone
CaseIdWithoutFacts(f, rules_applied, actions) ==
    [facts |-> <<>>, rules |-> SortedLabels(rules_applied),
     actions |-> SortedLabels(actions)]

\* case_id of store_case: the first 12 hex digits of the MD5 digest of
\* json.dumps({facts, rules, actions}, sort_keys=True).  The dump is given by
\* the value it encodes; the digest is taken to be free of collisions, so
\* the id is the dumped value.
CaseId(f, rules_applied, actions) ==
    [facts |-> SerializableFacts(f), rules |-> SortedLabels(rules_applied),
     actions |-> SortedLabels(actions)]

\* CaseBasedLearning.extract_features, for facts whose duracion and
\* ausencias_ultimo_mes are numbers or absent (float() raises on others)
extract_features(f) ==
    LET motivo == FactGet(f, "motivo")
        sector == FactGet(f, "sector")
        dl     == FactGet(f, "certificate_deadline")
        num(k) == IF k \in DOMAIN f THEN 2 * NumVal(f[k]) ELSE 0
        motivo_map(m) ==
             CASE m = "ART" -> 2
               [] m = "Licencia Enfermedad Personal" -> 4
               [] m = "Licencia Enfermedad Familiar" -> 6
               [] m = "Licencia por Fallecimiento Familiar" -> 8
               [] m = "Licencia por Matrimonio" -> 10
               [] m = "Licencia por Paternidad" -> 12
               [] m = "Licencia por Nacimiento" -> 14
               [] m = "Permiso Gremial" -> 16
               [] OTHER -> 0
        sector_map(x) ==
             CASE x = "linea1" -> 2 [] x = "linea2" -> 4
               [] x = "Mantenimiento" -> 6 [] x = "RH" -> 8
               [] OTHER -> 0
    IN
    [motivo |-> Fin(IF motivo.t = "str" THEN motivo_map(motivo.v) ELSE 0),
     duracion |-> Fin(num("duracion")),
     ausencias_ultimo_mes |-> Fin(num("ausencias_ultimo_mes")),
     certificate_uploaded |->
        Fin(IF Truthy(FactGet(f, "certificate_uploaded")) THEN 2 ELSE 0),
     validation_status |->
        Fin(IF PyEq(FactGet(f, "validation_status"), PyStr("validated")) THEN 2 ELSE 1),
     deadline_exceeded |->
        Fin(IF dl.t = "datetime" /\ Today > dl.v THEN 2 * (Today - dl.v) ELSE 0),
     sector |-> Fin(IF sector.t = "str" THEN sector_map(sector.v) ELSE 0)]

\* the Case store_case creates (lines 218-226); timestamp is the number of
\* the call
NewCase(f, rules_applied, actions, outcome, now) ==
    [case_id |-> CaseId(f, rules_applied, actions),
     facts |-> SerializableFacts(f), rules_applied |-> rules_applied,
     actions_taken |-> actions, outcome |-> outcome, feedback |-> "None",
     similarity_features |-> extract_features(f), timestamp |-> now,
     expert_validation |-> FALSE]

\* INSERT OR REPLACE INTO cases (lines 236-250): case_id is UNIQUE, so a row
\* with the same case_id is deleted; the new row takes the next id, a NULL
\* feedback and expert_validation False
InsertOrReplace(rows, rowid, c) ==
    LET Other(r) == r.case_id # c.case_id IN
    Append(SelectSeq(rows, Other),
           [id |-> rowid, case_id |-> c.case_id, facts |-> c.facts,
            rules_applied |-> c.rules_applied, actions_taken |-> c.actions_taken,
            outcome |-> c.outcome, feedback |-> "None",
            similarity_features |-> c.similarity_features,
            timestamp |-> c.timestamp, expert_validation |-> FALSE])

\* Most store_case calls drawn in a behaviour.
MaxStores == 2
\* Largest value of a numeric feature drawn, in halves.
MaxFeatureValue == 4

\* facts of stored cases: the second and third differ in the type of
\* certificate_deadline only
StoreFacts ==
    { [motivo |-> PyStr("ART"), duracion |-> PyInt(5)],
      [motivo |-> PyStr("ART"), duracion |-> PyInt(5),
       certificate_deadline |-> PyDate(Today - 2)],
      [motivo |-> PyStr("ART"), duracion |-> PyInt(5),
       certificate_deadline |-> PyStr(IsoFormat(Today - 2))] }
StoreRules    == {<<>>, <<"r1", "r2">>, <<"r2", "r1">>}
StoreActions  == {<<>>, <<"a1">>}
StoreOutcomes == {"approved", "escalated"}

\* feature vectors: every mapping of some of these features to its values;
\* "otro" is a feature without a weight
VectorValues ==
    [motivo |-> {Fin(0), Fin(2), NaN}, certificate_uploaded |-> {Fin(0), Fin(2)},
     duracion |-> {Fin(x) : x \in (-2)..MaxFeatureValue} \cup {NaN, Inf},
     otro |-> {Fin(2)}]
Vectors ==
    UNION {[D -> UNION {VectorValues[k] : k \in D}] : D \in SUBSET DOMAIN VectorValues}
FeatureVectors == {v \in Vectors : \A k \in DOMAIN v : v[k] \in VectorValues[k]}

\* CaseBasedLearning.__init__ on an empty table
InitCBR ==
    /\ InferIdle /\ CallIdle
    /\ cases = <<>> /\ db = <<>> /\ nextRowId = 1 /\ lastStore = <<>>
    /\ simIn = <<>> /\ simOut = <<>> /\ RetrIdle

\* CaseBasedLearning.store_case; db_ok is whether the write to the table
\* succeeds (the except branch only prints).  The call returns the case_id
\* either way and raises nothing.
store_case(f, ra, at, outcome, db_ok) ==
    LET new_case == NewCase(f, ra, at, outcome, Len(lastStore) + 1) IN
    /\ cases' = Append(cases, new_case)
    /\ IF db_ok
       THEN /\ db' = InsertOrReplace(db, nextRowId, new_case)
            /\ nextRowId' = nextRowId + 1
       ELSE UNCHANGED <<db, nextRowId>>
    /\ lastStore' = Append(lastStore,
           [facts |-> f, rules_applied |-> ra, actions_taken |-> at,
            outcome |-> outcome, db_ok |-> db_ok,
            case_id |-> new_case.case_id, raised |-> FALSE])
    /\ UNCHANGED <<simIn, simOut, retrVars, inferVars, callVars>>

StoreCase ==
    /\ Len(lastStore) < MaxStores /\ simIn = <<>>
    /\ \E f \in StoreFacts, ra \in StoreRules, at \in StoreActions,
          outcome \in StoreOutcomes, db_ok \in BOOLEAN :
          store_case(f, ra, at, outcome, db_ok)

\* calculate_similarity called on two vectors, both ways, and on the first
\* with itself; the function reads the weights only, so a behaviour holds
\* either this one call or calls of store_case
Similarity ==
    /\ simIn = <<>> /\ lastStore = <<>>
    /\ \E v1 \in FeatureVectors, v2 \in FeatureVectors :
          /\ simIn' = <<v1, v2>>
          /\ simOut' = [s12 |-> calculate_similarity(v1, v2),
                        s21 |-> calculate_similarity(v2, v1),
                        s11 |-> calculate_similarity(v1, v1)]
    /\ UNCHANGED <<cases, db, nextRowId, lastStore, retrVars, inferVars, callVars>>

NextCBR == StoreCase \/ Similarity
SpecCBR == InitCBR /\ [][NextCBR]_vars

-----------------------------------------------------------------------------
(***************************************************************************)
(* Claims on the case store and on calculate_similarity.                   *)
(***************************************************************************)
\* the cases of the in-memory list, and the rows of the table, with an id
CasesWithId(id) == {k \in 1..Len(cases) : cases[k].case_id = id}
RowsWithId(id) == {k \in 1..Len(db) : db[k].case_id = id}

SameInput(a, b) ==
    /\ a.facts = b.facts /\ a.rules_applied = b.rules_applied
    /\ a.actions_taken = b.actions_taken /\ a.outcome = b.outcome

\* C8: two store_case calls with identical facts, rules_applied,
\* actions_taken and outcome return the same case_id and leave exactly one
\* case with that id in the in-memory list and (the writes having succeeded)
\* exactly one row in the table.
C8_StoreCaseIdempotent ==
    \A i, j \in 1..Len(lastStore) :
        (i < j /\ SameInput(lastStore[i], lastStore[j])) =>
            /\ lastStore[i].case_id = lastStore[j].case_id
            /\ Cardinality(CasesWithId(lastStore[i].case_id)) = 1
            /\ (lastStore[i].db_ok /\ lastStore[j].db_ok) =>
                   Cardinality(RowsWithId(lastStore[i].case_id)) = 1

\* the case of call a is stored: the list holds a case with its id and its
\* facts, and the table a row with its id if its write succeeded
Stored(a) ==
    /\ \E k \in CasesWithId(a.case_id) : cases[k].facts = SerializableFacts(a.facts)
    /\ a.db_ok => RowsWithId(a.case_id) # {}

DifferentInput(a, b) ==
    \/ a.facts # b.facts \/ a.rules_applied # b.rules_applied
    \/ a.actions_taken # b.actions_taken

\* what the id is computed from: the facts with timestamps as ISO strings,
\* the rules applied and the actions taken as sorted lists
DifferentContent(a, b) ==
    \/ SerializableFacts(a.facts) # SerializableFacts(b.facts)
    \/ SortedLabels(a.rules_applied) # SortedLabels(b.rules_applied)
    \/ SortedLabels(a.actions_taken) # SortedLabels(b.actions_taken)

\* C9 as stated: two store_case calls whose facts, rules_applied or
\* actions_taken differ in any way get different case_ids and both cases
\* are stored.
C9_Original_AnyDifferenceNewCase ==
    \A i, j \in 1..Len(lastStore) :
        (i < j /\ DifferentInput(lastStore[i], lastStore[j])) =>
            /\ lastStore[i].case_id # lastStore[j].case_id
            /\ Stored(lastStore[i]) /\ Stored(lastStore[j])

\* C9 amended: two store_case calls that differ in the facts after the
\* conversion of timestamps to ISO strings, in the sorted rules_applied or in
\* the sorted actions_taken get different case_ids (the digest taken to be
\* free of collisions) and both cases are stored; two calls that differ in
\* nothing else get the same case_id.
C9_DifferentContentNewCase ==
    \A i, j \in 1..Len(lastStore) :
        i < j =>
            IF DifferentContent(lastStore[i], lastStore[j])
            THEN /\ lastStore[i].case_id # lastStore[j].case_id
                 /\ Stored(lastStore[i]) /\ Stored(lastStore[j])
            ELSE lastStore[i].case_id = lastStore[j].case_id

\* C9 witness: two calls that differ in the facts only, both written, left
\* two cases and two rows
C9_Witness_TwoCasesStored ==
    /\ Len(lastStore) = 2 /\ Len(cases) = 2 /\ Len(db) = 2
    /\ lastStore[1].facts # lastStore[2].facts
    /\ lastStore[1].rules_applied = lastStore[2].rules_applied
    /\ lastStore[1].actions_taken = lastStore[2].actions_taken
    /\ DifferentContent(lastStore[1], lastStore[2])
    /\ db[1].case_id = lastStore[1].case_id /\ db[2].case_id = lastStore[2].case_id

HasWeightedFeature(v) ==
    \E k \in DOMAIN v : k \in DOMAIN feature_weights /\ feature_weights[k] # 0
FiniteVector(v) == \A k \in DOMAIN v : v[k].k = "fin"

\* C10 as stated: calculate_similarity is symmetric for all feature vectors,
\* and similarity(v, v) == 1.0 for every vector with at least one feature of
\* nonzero weight.
C10_Original_SymmetricAndReflexive ==
    simIn # <<>> =>
        /\ FracEq(simOut.s12, simOut.s21)
        /\ HasWeightedFeature(simIn[1]) => FracEq(simOut.s11, Frac(1, 1))

\* C10 amended: the same for the feature vectors whose values are all finite
\* numbers (no nan, no infinity).
C10_SymmetricAndReflexive ==
    (simIn # <<>> /\ FiniteVector(simIn[1]) /\ FiniteVector(simIn[2])) =>
        /\ FracEq(simOut.s12, simOut.s21)
        /\ HasWeightedFeature(simIn[1]) => FracEq(simOut.s11, Frac(1, 1))

\* C10 witness: two finite vectors that differ in a numeric and agree on a
\* categorical feature: a similarity strictly between 0 and 1 both ways, and
\* 1 of the first with itself
C10_Witness_PartialMatch ==
    /\ simIn # <<>> /\ FiniteVector(simIn[1]) /\ FiniteVector(simIn[2])
    /\ {"motivo", "duracion"} \subseteq (DOMAIN simIn[1] \cap DOMAIN simIn[2])
    /\ simIn[1].motivo = simIn[2].motivo /\ simIn[1].duracion # simIn[2].duracion
    /\ FracEq(simOut.s12, simOut.s21) /\ FracEq(simOut.s11, Frac(1, 1))
    /\ ~FracLeq(simOut.s12, Frac(0, 1)) /\ ~FracLeq(Frac(1, 1), simOut.s12)

InUnitInterval(a) == FracLeq(Frac(0, 1), a) /\ FracLeq(a, Frac(1, 1))

\* C11: calculate_similarity returns a value in [0, 1] for every pair of
\* feature vectors.
C11_SimilarityInUnitInterval ==
    simIn # <<>> =>
        /\ InUnitInterval(simOut.s12) /\ InUnitInterval(simOut.s21)
        /\ InUnitInterval(simOut.s11)

-----------------------------------------------------------------------------
(***************************************************************************)
(* Retrieval: find_similar_cases and get_recommendations.                  *)
(***************************************************************************)
\* a >= b and a < b on floats
FracGeq(a, b) == FracLeq(b, a)
FracLt(a, b) == ~IsNaN(a) /\ ~IsNaN(b) /\ a.n * b.d < b.n * a.d

\* a fraction in lowest terms: the same float
RECURSIVE Gcd(_, _)
Gcd(a, b) == IF b = 0 THEN a ELSE Gcd(b, a % b)
FracReduce(a) ==
    IF IsNaN(a) THEN a
    ELSE LET g == Gcd(IF a.n < 0 THEN -a.n ELSE a.n, a.d) IN Frac(a.n \div g, a.d \div g)
\* a + b
FracPlus(a, b) == FracReduce(FracAddScaled(a, 1, b))
\* a / b for b > 0
FracDiv(a, b) ==
    IF IsNaN(a) \/ IsNaN(b) THEN FracNaN ELSE FracReduce(Frac(a.n * b.d, a.d * b.n))

\* matching_features of find_similar_cases (lines 175-182), from the i-th
\* feature on: abs(a - b) < 0.1 is a = b on multiples of 0.5
RECURSIVE MatchingFeatures(_, _, _)
MatchingFeatures(i, current_features, case_features) ==
    IF i > Len(FeatureOrder) THEN <<>>
    ELSE LET feature == FeatureOrder[i]
             rest    == MatchingFeatures(i + 1, current_features, case_features)
         IN  IF feature \in DOMAIN current_features /\ feature \in DOMAIN case_features
             THEN LET a == current_features[feature]
                      b == case_features[feature]
                  IN  IF feature = "motivo"
                      THEN IF FloatEq(a, b) THEN <<feature>> \o rest ELSE rest
                      ELSE IF a.k = "fin" /\ b.k = "fin" /\ 5 * AbsDiff(a.v, b.v) < 1
                           THEN <<feature>> \o rest ELSE rest
             ELSE rest

\* the loop of find_similar_cases over self.cases from the i-th case on
\* (lines 170-188): the cases at or above min_similarity, in list order
RECURSIVE SimilarFrom(_, _, _, _)
SimilarFrom(i, current_features, min_similarity, cs) ==
    IF i > Len(cs) THEN <<>>
    ELSE LET similarity == calculate_similarity(current_features, cs[i].similarity_features)
             rest == SimilarFrom(i + 1, current_features, min_similarity, cs)
         IN  IF FracGeq(similarity, min_similarity)
             THEN <<[case |-> cs[i], similarity_score |-> similarity,
                     matching_features |->
                         MatchingFeatures(1, current_features, cs[i].similarity_features)]>>
                  \o rest
             ELSE rest

\* a sort that puts an element before the elements of its score
RECURSIVE InsertBeforeEqualScore(_, _)
InsertBeforeEqualScore(sorted, x) ==
    IF sorted = <<>> THEN <<x>>
    ELSE IF FracLt(x.similarity_score, Head(sorted).similarity_score)
         THEN <<Head(sorted)>> \o InsertBeforeEqualScore(Tail(sorted), x)
         ELSE <<x>> \o sorted

\* list.sort(key=similarity_score, reverse=True) (line 191): stable
RECURSIVE InsertDescending(_, _)
InsertDescending(sorted, x) ==
    IF sorted = <<>> THEN <<x>>
    ELSE IF FracGeq(Head(sorted).similarity_score, x.similarity_score)
         THEN <<Head(sorted)>> \o InsertDescending(Tail(sorted), x)
         ELSE <<x>> \o sorted
RECURSIVE SortDescending(_)
SortDescending(q) ==
    IF q = <<>> THEN <<>>
    ELSE InsertDescending(SortDescending(SubSeq(q, 1, Len(q) - 1)), q[Len(q)])

\* q[:top_k] for top_k >= 0
FirstK(q, top_k) == SubSeq(q, 1, IF top_k < Len(q) THEN top_k ELSE Len(q))

\* CaseBasedLearning.find_similar_cases on the case list cs
find_similar_cases(current_facts, top_k, min_similarity, cs) ==
    IF cs = <<>> THEN <<>>
    ELSE FirstK(SortDescending(SimilarFrom(1, extract_features(current_facts),
                                           min_similarity, cs)), top_k)

\* Most store_case calls before a retrieval, and the largest top_k drawn.
MaxRetrievalStores == 3
MaxTopK == 3

\* the cases stored before a retrieval: the first two differ in the type of
\* certificate_deadline only and have the same features
RetrievalCases ==
    { [facts |-> [motivo |-> PyStr("ART"), duracion |-> PyInt(5)],
       rules_applied |-> <<"r1">>, actions_taken |-> <<"a1">>, outcome |-> "approved"],
      [facts |-> [motivo |-> PyStr("ART"), duracion |-> PyInt(5),
                  certificate_deadline |-> PyStr(IsoFormat(Today - 2))],
       rules_applied |-> <<"r1">>, actions_taken |-> <<"a2">>, outcome |-> "escalated"],
      [facts |-> [motivo |-> PyStr("ART"), duracion |-> PyInt(10)],
       rules_applied |-> <<"r1", "r2">>, actions_taken |-> <<"a1", "a2">>,
       outcome |-> "escalated"],
      [facts |-> [motivo |-> PyStr("Licencia Enfermedad Personal"), duracion |-> PyInt(8),
                  certificate_uploaded |-> PyBool(TRUE)],
       rules_applied |-> <<>>, actions_taken |-> <<>>, outcome |-> "approved"] }
\* the facts of the request cases are retrieved for
QueryFacts ==
    { [motivo |-> PyStr("ART"), duracion |-> PyInt(8)],
      [motivo |-> PyStr("ART"), duracion |-> PyInt(5)],
      [motivo |-> PyStr("x"), duracion |-> PyInt(-8), certificate_uploaded |-> PyBool(TRUE)] }
\* min_similarity: the default 0.3, the 0.4 of get_recommendations, 0.9, 1.0
Thresholds == {Frac(3, 10), Frac(2, 5), Frac(9, 10), Frac(1, 1)}

\* store_case before a retrieval, the table working
StoreSample ==
    /\ Len(lastStore) < MaxRetrievalStores /\ findIn = <<>> /\ recIn = <<>>
    /\ \E c \in RetrievalCases :
          store_case(c.facts, c.rules_applied, c.actions_taken, c.outcome, TRUE)

\* one call of find_similar_cases; it reads the case list only
FindSimilar ==
    /\ findIn = <<>> /\ recIn = <<>>
    /\ \E q \in QueryFacts, k \in 0..MaxTopK, m \in Thresholds :
          /\ findIn' = [facts |-> q, top_k |-> k, min_similarity |-> m]
          /\ findOut' = find_similar_cases(q, k, m, cases)
    /\ UNCHANGED <<cases, db, nextRowId, lastStore, simIn, simOut, recIn, recOut,
                   inferVars, callVars>>

\* counts[label] += weight on a defaultdict, its keys in insertion order
RECURSIVE AddTo(_, _, _)
AddTo(counts, label, weight) ==
    IF counts = <<>> THEN <<[key |-> label, value |-> FracPlus(Frac(0, 1), weight)]>>
    ELSE IF Head(counts).key = label
         THEN <<[key |-> label, value |-> FracPlus(Head(counts).value, weight)]>> \o Tail(counts)
         ELSE <<Head(counts)>> \o AddTo(Tail(counts), label, weight)
\* a tally that counts the cases and not their similarity
RECURSIVE TallyUnweighted(_)
TallyUnweighted(pairs) ==
    IF pairs = <<>> THEN <<>>
    ELSE AddTo(TallyUnweighted(SubSeq(pairs, 1, Len(pairs) - 1)),
               pairs[Len(pairs)].key, Frac(1, 1))
\* outcome_counts / action_counts after the loop over similar_cases (lines 279-289)
RECURSIVE Tally(_)
Tally(pairs) ==
    IF pairs = <<>> THEN <<>>
    ELSE AddTo(Tally(SubSeq(pairs, 1, Len(pairs) - 1)),
               pairs[Len(pairs)].key, pairs[Len(pairs)].value)
\* max(counts.items(), key=value), sorted(..., reverse=True)[0]: the first
\* of the largest
RECURSIVE FirstMax(_)
FirstMax(counts) ==
    IF Len(counts) = 1 THEN counts[1]
    ELSE LET m == FirstMax(Tail(counts))
         IN  IF FracLt(Head(counts).value, m.value) THEN m ELSE Head(counts)
\* total_similarity
RECURSIVE TotalSimilarity(_)
TotalSimilarity(sc) ==
    IF sc = <<>> THEN Frac(0, 1)
    ELSE FracPlus(TotalSimilarity(SubSeq(sc, 1, Len(sc) - 1)), sc[Len(sc)].similarity_score)
OutcomePairs(sc) ==
    [i \in 1..Len(sc) |-> [key |-> sc[i].case.outcome, value |-> sc[i].similarity_score]]
RECURSIVE ActionPairs(_)
ActionPairs(sc) ==
    IF sc = <<>> THEN <<>>
    ELSE LET at == Head(sc).case.actions_taken
         IN  [i \in 1..Len(at) |-> [key |-> at[i], value |-> Head(sc).similarity_score]]
             \o ActionPairs(Tail(sc))

\* top_k and min_similarity of the retrieval in get_recommendations (line 263)
RecommendTopK == 5
RecommendMinSimilarity == Frac(2, 5)

\* CaseBasedLearning.get_recommendations on the case list cs; the texts of
\* 'suggestion' and 'reasoning' are left to the label they name
get_recommendations(current_facts, cs) ==
    LET similar_cases == find_similar_cases(current_facts, RecommendTopK,
                                            RecommendMinSimilarity, cs)
    IN  IF similar_cases = <<>>
        THEN [recommendations |-> <<>>, confidence |-> Frac(0, 1), similar_cases_count |-> 0]
        ELSE LET total_similarity == TotalSimilarity(similar_cases)
                 most_likely_outcome == FirstMax(Tally(OutcomePairs(similar_cases)))
                 confidence == FracDiv(most_likely_outcome.value, total_similarity)
                 action_counts == Tally(ActionPairs(similar_cases))
             IN  [recommendations |->
                      <<[type |-> "outcome_prediction", suggestion |-> most_likely_outcome.key,
                         confidence |-> confidence]>>
                      \o (IF action_counts # <<>>
                          THEN <<[type |-> "action_suggestion",
                                  suggestion |-> FirstMax(action_counts).key,
                                  confidence |-> FracDiv(FirstMax(action_counts).value,
                                                         total_similarity)]>>
                          ELSE <<>>)
                      \o (IF FracLt(Frac(4, 5), confidence)
                          THEN <<[type |-> "pattern_alert", suggestion |-> "",
                                  confidence |-> confidence]>>
                          ELSE <<>>),
                  confidence |-> confidence,
                  similar_cases_count |-> Len(similar_cases)]

\* one call of get_recommendations
Recommend ==
    /\ findIn = <<>> /\ recIn = <<>>
    /\ \E q \in QueryFacts :
          /\ recIn' = [facts |-> q]
          /\ recOut' = get_recommendations(q, cases)
    /\ UNCHANGED <<cases, db, nextRowId, lastStore, simIn, simOut, findIn, findOut,
                   inferVars, callVars>>

NextRetrieve == StoreSample \/ FindSimilar \/ Recommend
SpecRetrieve == InitCBR /\ [][NextRetrieve]_vars

-----------------------------------------------------------------------------
\* the similarity of the retrieved-for facts to the i-th stored case
ScoreOf(i) ==
    calculate_similarity(extract_features(findIn.facts), cases[i].similarity_features)
\* the positions of the stored cases at or above the threshold
Qualifying == {i \in 1..Len(cases) : FracGeq(ScoreOf(i), findIn.min_similarity)}
\* the position in the case list of the j-th result (timestamps tell cases apart)
PosOf(j) == CHOOSE i \in 1..Len(cases) : cases[i] = findOut[j].case
Returned == {PosOf(j) : j \in 1..Len(findOut)}
\* position i comes before position h in the order of the results
RanksBefore(i, h) ==
    \/ FracLt(ScoreOf(h), ScoreOf(i))
    \/ FracEq(ScoreOf(i), ScoreOf(h)) /\ i < h

\* C12: find_similar_cases returns the stored cases at or above min_similarity,
\* by descending similarity with ties in insertion order, cut to the first k:
\* at most k results, none below the threshold, no omitted case ranks before
\* a returned one.
C12_FindSimilarSortedTopK ==
    findIn # <<>> =>
        /\ Len(findOut) = IF findIn.top_k < Cardinality(Qualifying)
                          THEN findIn.top_k ELSE Cardinality(Qualifying)
        /\ \A j \in 1..Len(findOut) :
              /\ \E i \in 1..Len(cases) : cases[i] = findOut[j].case
              /\ PosOf(j) \in Qualifying
              /\ FracEq(findOut[j].similarity_score, ScoreOf(PosOf(j)))
        /\ \A j, l \in 1..Len(findOut) : j < l => RanksBefore(PosOf(j), PosOf(l))
        /\ \A i \in Qualifying \ Returned : \A h \in Returned : RanksBefore(h, i)
\* three cases qualify, two of them tie, one of the tied is cut off by k = 2
C12_Witness_TieCutByK ==
    /\ findIn # <<>> /\ findIn.top_k = 2 /\ Len(findOut) = 2
    /\ Cardinality(Qualifying) = 3
    /\ \E i \in Qualifying \ Returned : \E h \in Returned :
          FracEq(ScoreOf(i), ScoreOf(h)) /\ cases[i].case_id # cases[h].case_id

-----------------------------------------------------------------------------
\* the neighbours get_recommendations retrieves
Neighbours == find_similar_cases(recIn.facts, RecommendTopK, RecommendMinSimilarity, cases)
\* the sum of the scores of the neighbours with this outcome, from the i-th on
RECURSIVE VoteFrom(_, _)
VoteFrom(i, outcome) ==
    IF i > Len(Neighbours) THEN Frac(0, 1)
    ELSE IF Neighbours[i].case.outcome = outcome
         THEN FracPlus(Neighbours[i].similarity_score, VoteFrom(i + 1, outcome))
         ELSE VoteFrom(i + 1, outcome)
AllVotes == FracPlus(VoteFrom(1, "approved"), VoteFrom(1, "escalated"))

\* C13: get_recommendations predicts the outcome with the largest sum of
\* neighbour scores, confidence is that sum over the sum of all neighbour
\* scores, so 0 < confidence <= 1 with a neighbour; without one confidence is
\* 0.0 and the recommendation list is empty.
C13_ConfidenceIsWeightedVoteShare ==
    recIn # <<>> =>
        IF Neighbours = <<>>
        THEN recOut.recommendations = <<>> /\ FracEq(recOut.confidence, Frac(0, 1))
        ELSE LET predicted == recOut.recommendations[1].suggestion IN
             /\ recOut.recommendations[1].type = "outcome_prediction"
             /\ \A o \in StoreOutcomes : FracLeq(VoteFrom(1, o), VoteFrom(1, predicted))
             /\ FracLt(Frac(0, 1), AllVotes)
             /\ FracEq(recOut.confidence, FracDiv(VoteFrom(1, predicted), AllVotes))
             /\ FracEq(recOut.recommendations[1].confidence, recOut.confidence)
             /\ FracLt(Frac(0, 1), recOut.confidence)
             /\ FracLeq(recOut.confidence, Frac(1, 1))
\* neighbours of both outcomes: the prediction has a part of the votes
C13_Witness_SplitVote ==
    /\ recIn # <<>> /\ Len(Neighbours) >= 2
    /\ FracLt(recOut.confidence, Frac(1, 1))
    /\ \E i, j \in 1..Len(Neighbours) :
          Neighbours[i].case.outcome # Neighbours[j].case.outcome

-----------------------------------------------------------------------------
(***************************************************************************)
(* Runs over a rule file of one rule whose condition is True and whose     *)
(* action is any text of ActionTexts, with the default max_iterations.     *)
(***************************************************************************)
ActionRuleFiles ==
    {<<MakeRule(1, Body(Const(PyBool(TRUE)), EmptyText, t), 10)>> : t \in ActionTexts}

InitAction ==
    /\ CallIdle /\ CbrIdle
    /\ rule_file \in ActionRuleFiles
    /\ rules = _load_rules(rule_file)
    /\ initial_facts = NoFacts /\ facts = NoFacts
    /\ steps = <<>> /\ conclusions = <<>> /\ actions_taken = <<>>
    /\ iteration = 0 /\ max_iterations = 0
    /\ pc = "idle" /\ runs = <<>>

\* forward_chaining(initial_facts): max_iterations left to its default
StartDefault ==
    /\ pc = "idle"
    /\ \E f \in InitialFacts : Begin(f, DefaultMaxIterations)

NextAction == StartDefault \/ Iterate \/ Return
SpecAction == InitAction /\ [][NextAction]_vars

\* the text is a call name(arguments): a name, an opening parenthesis,
\* arguments without parentheses and with paired quotes, a closing parenthesis
IsCall(text) ==
    LET t == Strip(text) IN
    /\ Len(t) >= 3 /\ t[2] = "(" /\ t[Len(t)] = ")"
    /\ t[1] \notin {"(", ")", ",", "'", " "}
    /\ LET args == SubSeq(t, 3, Len(t) - 1)
       IN  ~Has(args, "(") /\ ~Has(args, ")") /\ Count(args, "'") % 2 = 0
MalformedOrUnknown(text) == ~IsCall(text) \/ Strip(text)[1] \notin allowed_actions
\* the rule of the step a pass has just recorded
FiredRule == CHOOSE r \in {rules[i] : i \in 1..Len(rules)} :
                 r.id = steps'[Len(steps')].rule_id

\* C14: a rule whose condition is true and whose action text is malformed or
\* names an unknown action gets its step with condition_result true and its
\* executed flag, and nothing else: no other fact changes, nothing is added
\* to actions_taken or conclusions.
C14_MalformedActionIsNoOp ==
    [][ (Len(steps') = Len(steps) + 1 /\ MalformedOrUnknown(FiredRule.action)) =>
            /\ steps'[Len(steps')].condition_result
            /\ facts' = FactSet(facts, ExecutedKey(FiredRule.id), PyBool(TRUE))
            /\ actions_taken' = actions_taken
            /\ conclusions' = conclusions ]_vars

-----------------------------------------------------------------------------
\* forward_chaining's while loop as a function (lines 180-217): the steps and
\* final facts of the run of the rules rs that is at facts f with steps st
\* after it passes, and the facts its scans read
RECURSIVE RunFrom(_, _, _, _, _)
RunFrom(rs, f, st, it, cap) ==
    IF ~LoopGuard(it, cap) THEN [steps |-> st, final_facts |-> f, scanned |-> {}]
    ELSE LET i == ScanFrom(1, rs, f) IN
         IF i = 0 THEN [steps |-> st, final_facts |-> f, scanned |-> {f}]
         ELSE LET r    == _execute_action(rs[i].action, rs[i], f)
                  rest == RunFrom(rs, FactSet(r.facts, ExecutedKey(rs[i].id), PyBool(TRUE)),
                                  Append(st, _evaluate_rule(rs[i], f)), it + 1, cap)
              IN  [rest EXCEPT !.scanned = @ \cup {f}]
\* the loaded rules without the one with this id
Without(id) == SelectSeq(rules, LAMBDA r : r.id # id)
RunWithout(id) == RunFrom(Without(id), FactsAtStart, <<>>, 0, max_iterations)
\* the rule's condition fails to evaluate in every scan of the run without it
KeepsFailing(rule) ==
    \A f \in RunWithout(rule.id).scanned : evaluate(rule.condition, f).failed

(***************************************************************************)
(* Runs over rule files that hold rules whose condition fails to evaluate. *)
(***************************************************************************)
\*  condition               action
\*  (a syntax error)        mark_sanction()
\*  motivo.upper == 'ART'   mark_sanction()
\*  ausencias > 2           mark_sanction()        ausencias is in no facts
\*  flag > 'b'              require_approval()     fails until flag is set
\*  True                    set_fact('flag', 'si')
\*  True                    mark_sanction()
FailingRuleBodies ==
    { Body(ParseError, EmptyText, <<"mark_sanction", "(", ")">>),
      Body(Compare(OtherNode("Attribute", <<Name("motivo")>>), <<"Eq">>,
                   <<Const(PyStr("ART"))>>), EmptyText, <<"mark_sanction", "(", ")">>),
      Body(Compare(Name("ausencias"), <<"Gt">>, <<Const(PyInt(2))>>), EmptyText,
           <<"mark_sanction", "(", ")">>),
      Body(Compare(Name("flag"), <<"Gt">>, <<Const(PyStr("b"))>>), EmptyText,
           <<"require_approval", "(", ")">>),
      Body(Const(PyBool(TRUE)), EmptyText, Tok_set_fact("flag", <<"si">>)),
      Body(Const(PyBool(TRUE)), EmptyText, <<"mark_sanction", "(", ")">>) }
RECURSIVE FailingRuleFilesOfLen(_)
FailingRuleFilesOfLen(n) ==
    IF n = 0 THEN {<<>>}
    ELSE {Append(q, MakeRule(n, b, p)) :
              q \in FailingRuleFilesOfLen(n - 1), b \in FailingRuleBodies, p \in Priorities}

InitFailing ==
    /\ CallIdle /\ CbrIdle
    /\ rule_file \in UNION {FailingRuleFilesOfLen(n) : n \in 0..MaxRules}
    /\ rules = _load_rules(rule_file)
    /\ initial_facts = NoFacts /\ facts = NoFacts
    /\ steps = <<>> /\ conclusions = <<>> /\ actions_taken = <<>>
    /\ iteration = 0 /\ max_iterations = 0
    /\ pc = "idle" /\ runs = <<>>
SpecFailing == InitFailing /\ [][Next]_vars

\* C15: a rule whose condition fails to evaluate does not fire, and for as
\* long as it keeps failing the run returns the steps and final facts of the
\* run over the rule set without that rule.
C15_FailingRuleIsAsIfAbsent ==
    /\ [][ Len(steps') = Len(steps) + 1 =>
              ~evaluate(FiredRule.condition, facts).failed ]_vars
    /\ [](pc = "returned" =>
            \A i \in 1..Len(rules) :
               KeepsFailing(rules[i]) =>
                  /\ steps = RunWithout(rules[i].id).steps
                  /\ facts = RunWithout(rules[i].id).final_facts)
\* the first rule scanned keeps failing and the rule after it fired
C15_Witness_LaterRuleFired ==
    /\ pc = "returned" /\ Len(rules) = 2 /\ Len(steps) = 1
    /\ steps[1].rule_id = rules[2].id
    /\ KeepsFailing(rules[1])
    /\ rules[1].condition = Compare(Name("ausencias"), <<"Gt">>, <<Const(PyInt(2))>>)

-----------------------------------------------------------------------------
(***************************************************************************)
(* Two forward_chaining runs interleaved on one InferenceEngine, as when   *)
(* one IntegratedExpertSystem serves two requests in parallel.  self.facts *)
(* and self.inference_steps are the engine's (facts, steps); conclusions,  *)
(* actions_taken, iteration and max_iterations are locals of each run      *)
(* (runs[t]).  A run is preempted between its initialisation, its passes   *)
(* and its return only; Python may switch threads inside them as well.     *)
(***************************************************************************)
Threads == {1, 2}
IdleRun == [pc |-> "idle", initial_facts |-> NoFacts, max_iterations |-> 0, iteration |-> 0,
            conclusions |-> <<>>, actions_taken |-> <<>>, result |-> <<>>]
\* one rule, any body
SingleRuleFiles == {<<MakeRule(1, b, 10)>> : b \in RuleBodies}

InitShared ==
    /\ CallIdle /\ CbrIdle
    /\ rule_file \in SingleRuleFiles
    /\ rules = _load_rules(rule_file)
    /\ initial_facts = NoFacts /\ facts = NoFacts
    /\ steps = <<>> /\ conclusions = <<>> /\ actions_taken = <<>>
    /\ iteration = 0 /\ max_iterations = 0
    /\ pc = "off" /\ runs = [t \in Threads |-> IdleRun]

\* run t: forward_chaining up to the while loop (lines 166-179)
RunStart(t) ==
    /\ runs[t].pc = "idle"
    /\ \E f \in InitialFacts :
          /\ facts' = WithSpecials(f, 0)
          /\ runs' = [runs EXCEPT ![t] = [IdleRun EXCEPT !.pc = "loop", !.initial_facts = f,
                                              !.max_iterations = DefaultMaxIterations]]
    /\ steps' = <<>>
    /\ UNCHANGED <<rule_file, rules, initial_facts, conclusions, actions_taken, iteration,
                   max_iterations, pc, callVars, cbrVars>>

\* run t: one pass of the while loop (lines 180-206)
RunPass(t) ==
    /\ runs[t].pc = "loop"
    /\ LoopGuard(runs[t].iteration, runs[t].max_iterations)
    /\ LET i == ScanFrom(1, rules, facts) IN
       IF i = 0
       THEN /\ runs' = [runs EXCEPT ![t].pc = "exit", ![t].iteration = @ + 1]
            /\ UNCHANGED <<facts, steps>>
       ELSE LET rule == rules[i]
                step == _evaluate_rule(rule, facts)
                r    == _execute_action(rule.action, rule, facts)
            IN  /\ steps' = Append(steps, step)
                /\ runs' = [runs EXCEPT
                      ![t].iteration = @ + 1,
                      ![t].actions_taken =
                          IF Truthy(r.result) THEN Append(@, r.result.v) ELSE @,
                      ![t].conclusions =
                          IF Truthy(r.result) THEN Append(@, step.rule_name) ELSE @]
                /\ facts' = FactSet(r.facts, ExecutedKey(rule.id), PyBool(TRUE))
    /\ UNCHANGED <<rule_file, rules, initial_facts, conclusions, actions_taken, iteration,
                   max_iterations, pc, callVars, cbrVars>>

\* run t: the InferenceResult (lines 208-217), its steps as the list holds
\* them at the return
RunReturn(t) ==
    /\ \/ runs[t].pc = "exit"
       \/ runs[t].pc = "loop" /\ ~LoopGuard(runs[t].iteration, runs[t].max_iterations)
    /\ runs' = [runs EXCEPT ![t].pc = "returned",
                            ![t].result = [conclusions |-> runs[t].conclusions,
                                           actions_taken |-> runs[t].actions_taken,
                                           steps |-> steps, final_facts |-> facts]]
    /\ UNCHANGED <<rule_file, rules, initial_facts, facts, steps, conclusions, actions_taken,
                   iteration, max_iterations, pc, callVars, cbrVars>>

NextShared == \E t \in Threads : RunStart(t) \/ RunPass(t) \/ RunReturn(t)
SpecShared == InitShared /\ [][NextShared]_vars

\* what run t returns when it runs alone
Alone(t) == RunFrom(rules, WithSpecials(runs[t].initial_facts, 0), <<>>, 0,
                    runs[t].max_iterations)

\* C16: each of two runs interleaved on one engine returns the steps and
\* final facts it returns when run alone.
C16_InterleavedRunsAsAlone ==
    runs # <<>> =>
        \A t \in Threads :
            runs[t].pc = "returned" =>
                /\ runs[t].result.steps = Alone(t).steps
                /\ runs[t].result.final_facts = Alone(t).final_facts

-----------------------------------------------------------------------------
\* the InferenceResult forward_chaining returns (lines 211-217, the dataclass
\* of lines 20-27), its fields as Python values; the clock of the model does
\* not advance during a run
InferenceResult ==
    [conclusions |-> PyList(conclusions), actions_taken |-> PyList(actions_taken),
     steps |-> PyList(steps), final_facts |-> PyDict(facts), execution_time |-> PyFloat(0)]
\* why the loop was left: every pass fired a rule and the guard ended the
\* loop, or a pass fired none and broke out of it (lines 180, 205-206)
StopReason == IF Len(steps) = iteration THEN "cap reached" ELSE "fixed point"

\* C17: the InferenceResult of every run reports why the run stopped, cap
\* reached or fixed point: one of its fields holds the reason.
C17_ResultReportsStopReason ==
    pc = "returned" =>
        \E field \in DOMAIN InferenceResult :
            /\ InferenceResult[field].t = "str"
            /\ InferenceResult[field].v = StopReason

-----------------------------------------------------------------------------
(***************************************************************************)
(* Runs whose caller supplies facts under names the engine writes.         *)
(***************************************************************************)
ReservedFacts ==
    { [duracion |-> PyInt(8), rule_r1_executed |-> PyBool(TRUE)],
      [duracion |-> PyInt(8), sancion_aplicada |-> PyBool(TRUE)],
      [duracion |-> PyInt(8), now |-> PyStr("x")],
      [duracion |-> PyInt(8), observaciones |-> PyStr("x"), flag |-> PyStr("si")] }

\* forward_chaining(initial_facts) on such facts: lines 166-179 hold no check
StartReserved ==
    /\ pc = "idle"
    /\ \E f \in ReservedFacts : Begin(f, DefaultMaxIterations)

NextReserved == StartReserved \/ Iterate \/ Return
SpecReserved == Init /\ [][NextReserved]_vars

ReservedNames == {"now", "observaciones", "sancion_aplicada", "sancion_motivo",
                  "requiere_aprobacion", "aprobacion_motivo"}
                 \cup {ExecutedKey("r" \o IntStr(i)) : i \in 1..(MaxRules + 1)}
HasReservedName(f) == DOMAIN f \cap ReservedNames # {}

\* C18: a run called with initial facts that hold a reserved name fails
\* before any rule is evaluated or any action is executed: it records no
\* step, takes no action and returns no result.
C18_ReservedNameRejected ==
    (pc # "idle" /\ HasReservedName(initial_facts)) =>
        /\ steps = <<>> /\ actions_taken = <<>>
        /\ pc # "returned"

-----------------------------------------------------------------------------
\* C19: a store_case call whose write to the table failed is surfaced as a
\* failed operation: a call that returns a case_id without raising has its
\* case in the table.
C19_ReturnedCaseIsPersisted ==
    \A i \in 1..Len(lastStore) :
        /\ ~lastStore[i].db_ok => lastStore[i].raised
        /\ ~lastStore[i].raised => RowsWithId(lastStore[i].case_id) # {}

-----------------------------------------------------------------------------
(***************************************************************************)
(* RulesManager: add_rule, edit_rule and delete_rule on the rule file.     *)
(* rule_file is the "rules" list of the JSON file, read by load_rules at   *)
(* the start of each call and written by save_rules at its end.  A rule id *)
(* given to add_rule is a text of tokens: r1, r2, an underscore, a blank.  *)
(***************************************************************************)
\* Most calls made, and the longest id text given to add_rule.
MaxCalls == 3
MaxIdLen == 2
IdTokens == {"r1", "r2", "_", " "}
IdTexts == UNION {[1..n -> IdTokens] : n \in 0..MaxIdLen}

\* rule_id.replace('_', '').replace('-', '').isalnum()
IsAlnumId(rule_id) ==
    LET rest == SelectSeq(rule_id, LAMBDA c : c \notin {"_", "-"})
    IN  rest # <<>> /\ \A i \in 1..Len(rest) : rest[i] \in {"r1", "r2"}

\* RulesManager.validate_rule_id: the ok flag; no id of the model is longer
\* than 50 characters
validate_rule_id(rule_id, existing_rules) ==
    IF rule_id = <<>> \/ Strip(rule_id) = <<>> THEN FALSE
    ELSE IF ~IsAlnumId(rule_id) THEN FALSE
    ELSE ~\E i \in 1..Len(existing_rules) : existing_rules[i].id = Join(rule_id)
\* RulesManager.validate_priority, validate_severity: the ok flag
validate_priority(priority) == 1 <= priority /\ priority <= 100
validate_severity(severity) == severity \in {"info", "warning", "error"}

\* a rule of the file; explanation, created_by and created_at are left out
ManagerRule(id, condition, action, priority, severity) ==
    [id |-> id, name |-> "", condition |-> condition, action |-> action,
     priority |-> priority, severity |-> severity]
\* rule files with unique ids
StartFiles ==
    { <<>>,
      <<ManagerRule("r1", Const(PyBool(TRUE)), <<"mark_sanction", "(", ")">>, 10, "warning")>>,
      <<ManagerRule("r1", Const(PyBool(TRUE)), <<"mark_sanction", "(", ")">>, 10, "warning"),
        ManagerRule("r2", FlagIsSi, <<"mark_sanction", "(", ")">>, 20, "info")>> }
\* rule_data of add_rule
AddConditions == {Const(PyBool(TRUE)), EmptyText}
AddActions    == {<<"mark_sanction", "(", ")">>, <<"foo", "(", ")">>}
AddPriorities == {0, 10, 20}
AddSeverities == {"warning", "fatal"}
\* updated_data of edit_rule
EditData ==
    { [id |-> "r1"], [id |-> "r2"], [priority |-> 30], [priority |-> 0],
      [condition |-> EmptyText], [action |-> <<"foo", "(", ")">>],
      [severity |-> "fatal"], [severity |-> "error", name |-> "n"] }

InitRules ==
    /\ CbrIdle
    /\ rule_file \in StartFiles
    /\ rules = <<>> /\ initial_facts = NoFacts
    /\ facts = NoFacts /\ steps = <<>> /\ conclusions = <<>>
    /\ actions_taken = <<>> /\ iteration = 0 /\ max_iterations = 0
    /\ pc = "off" /\ runs = <<>>
    /\ call = "none" /\ expr = EmptyText /\ callFacts = NoFacts /\ evalOut = NoEval
    /\ actionText = <<>> /\ valid = FALSE /\ execOut = ExecRes(PyNone, NoFacts, "none")
    /\ mgrIn = [n |-> 0, rule_id |-> ""]

\* what a call of the manager leaves alone
ManagerFrame ==
    UNCHANGED <<rules, initial_facts, facts, steps, conclusions, actions_taken, iteration,
                max_iterations, pc, runs, expr, callFacts, evalOut, actionText, execOut,
                cbrVars>>

\* RulesManager.add_rule; save_ok: save_rules wrote the file
add_rule(id, condition, action, priority, severity, save_ok) ==
    LET ok == /\ validate_rule_id(id, rule_file)
              /\ validate_condition(condition)
              /\ validate_action(action)
              /\ validate_priority(priority)
              /\ validate_severity(severity)
        new_rule == ManagerRule(Join(Strip(id)), condition, Strip(action), priority, severity)
    IN  /\ rule_file' = IF ok /\ save_ok
                        THEN SortedByPriority(Append(rule_file, new_rule))
                        ELSE rule_file
        /\ valid' = (ok /\ save_ok)
        /\ call' = "add_rule"
        /\ mgrIn' = [n |-> mgrIn.n + 1, rule_id |-> Join(id)]
        /\ ManagerFrame
AddRule ==
    /\ mgrIn.n < MaxCalls
    /\ \E id \in IdTexts, c \in AddConditions, a \in AddActions, p \in AddPriorities,
          sev \in AddSeverities, save_ok \in BOOLEAN : add_rule(id, c, a, p, sev, save_ok)

\* rules[rule_index].update(updated_data)
Updated(rule, updated_data) ==
    [k \in DOMAIN rule \cup DOMAIN updated_data |->
        IF k \in DOMAIN updated_data THEN updated_data[k] ELSE rule[k]]

\* RulesManager.edit_rule; updated_at is left out
edit_rule(rule_id, updated_data, save_ok) ==
    LET found == {i \in 1..Len(rule_file) : rule_file[i].id = rule_id}
        rule_index == CHOOSE i \in found : \A j \in found : i <= j
        ok == /\ ("condition" \in DOMAIN updated_data
                     => validate_condition(updated_data.condition))
              /\ ("action" \in DOMAIN updated_data => validate_action(updated_data.action))
              /\ ("priority" \in DOMAIN updated_data
                     => validate_priority(updated_data.priority))
              /\ ("severity" \in DOMAIN updated_data
                     => validate_severity(updated_data.severity))
        updated == [rule_file EXCEPT ![rule_index] = Updated(@, updated_data)]
    IN  /\ rule_file' = IF found # {} /\ ok /\ save_ok
                        THEN IF "priority" \in DOMAIN updated_data
                             THEN SortedByPriority(updated) ELSE updated
                        ELSE rule_file
        /\ valid' = (found # {} /\ ok /\ save_ok)
        /\ call' = "edit_rule"
        /\ mgrIn' = [n |-> mgrIn.n + 1, rule_id |-> rule_id]
        /\ ManagerFrame
EditRule ==
    /\ mgrIn.n < MaxCalls
    /\ \E rule_id \in {"r1", "r2", "r1r2"}, d \in EditData, save_ok \in BOOLEAN :
          edit_rule(rule_id, d, save_ok)

\* RulesManager.delete_rule
delete_rule(rule_id, save_ok) ==
    LET kept == SelectSeq(rule_file, LAMBDA r : r.id # rule_id)
        found == Len(kept) # Len(rule_file)
    IN  /\ rule_file' = IF found /\ save_ok THEN kept ELSE rule_file
        /\ valid' = (found /\ save_ok)
        /\ call' = "delete_rule"
        /\ mgrIn' = [n |-> mgrIn.n + 1, rule_id |-> rule_id]
        /\ ManagerFrame
DeleteRule ==
    /\ mgrIn.n < MaxCalls
    /\ \E rule_id \in {"r1", "r2", "r1r2"}, save_ok \in BOOLEAN : delete_rule(rule_id, save_ok)

NextRules == AddRule \/ EditRule \/ DeleteRule
SpecRules == InitRules /\ [][NextRules]_vars

UniqueIds(q) == \A i, j \in 1..Len(q) : i # j => q[i].id # q[j].id

\* C20: after any sequence of add_rule, edit_rule and delete_rule calls on a
\* rule file with unique ids no two rules of the file have the same id, and
\* an add_rule whose id is in the file is rejected and leaves the file as it
\* was.
C20_RuleIdsStayUnique ==
    /\ [](mgrIn # <<>> => UniqueIds(rule_file))
    /\ [][ (mgrIn # <<>> /\ call' = "add_rule"
            /\ \E i \in 1..Len(rule_file) : rule_file[i].id = mgrIn'.rule_id)
           => ~valid' /\ rule_file' = rule_file ]_vars

-----------------------------------------------------------------------------
(***************************************************************************)
(* Arithmetic in expressions.                                              *)
(***************************************************************************)
\* operator.add, sub, mul, mod, pow on two integers (b > 0); operator.truediv
\* gives a / b, held as the numerator a over the denominator b
StdArith(op, a, b) ==
    CASE op = "Add"  -> a + b
      [] op = "Sub"  -> a - b
      [] op = "Mult" -> a * b
      [] op = "Mod"  -> a % b
      [] op = "Pow"  -> a ^ b
      [] op = "Div"  -> a
\* (a op b) cmp c in standard arithmetic, for b > 0
StdCompare(cmp, op, a, b, c) ==
    LET lhs == StdArith(op, a, b)
        rhs == IF op = "Div" THEN c * b ELSE c
    IN  IF cmp = "Eq" THEN lhs = rhs ELSE lhs > rhs

\* C21: an expression that compares the sum, difference, product, quotient,
\* remainder or power of an integer fact and an integer literal with an
\* integer literal evaluates, without an evaluation failure, to the truth of
\* that comparison in standard arithmetic (/ being true division).
C21_ArithmeticIsStandard ==
    (call = "evaluate" /\ expr \in Arithmetic) =>
        LET b == expr.kids[1]
            a == FactGet(callFacts, b.kids[1].name)
        IN  a.t = "int" =>
              /\ ~evalOut.failed
              /\ evalOut.value =
                    PyBool(StdCompare(expr.ops[1], b.name, a.v, b.kids[2].val.v,
                                      expr.kids[2].val.v))

\* a single comparison of two leaves, one a string and the other an integer
StrWithNumber(e, f) ==
    /\ e.k = "Compare" /\ Len(e.ops) = 1
    /\ e.ops[1] \in {"Lt", "LtE", "Gt", "GtE", "Eq", "NotEq"}
    /\ e.kids[1] \in GrammarLeaves /\ e.kids[2] \in GrammarLeaves
    /\ LET l == _eval_node(e.kids[1], f).val
           r == _eval_node(e.kids[2], f).val
       IN  \/ l.t = "str" /\ r.t = "int"
           \/ l.t = "int" /\ r.t = "str"

\* C22: a comparison of a string with a number by <, <=, >, >=, == or != ends
\* in the evaluation failure, so the condition counts as false.
C22_StrWithNumberFails ==
    (call = "evaluate" /\ StrWithNumber(expr, callFacts)) =>
        evalOut.failed /\ evalOut.value = PyBool(FALSE)

-----------------------------------------------------------------------------
(***************************************************************************)
(* Runs over rule files of one rule and of three rules whose actions write *)
(* the facts that other rules read.                                        *)
(***************************************************************************)
\*  condition      activation    action
\*  True           -             mark_sanction()
\*  True           -             set_fact('sancion_aplicada', 'x')
\*  flag == 'si'   -             require_approval()
\*  True           -             set_fact('requiere_aprobacion', 'x')
\*  True           -             set_fact('flag', 'si')
\*  True           -             set_fact('flag', 'b')
\*  True           flag == 'si'  add_observacion('m')
ChainBodies ==
    { Body(Const(PyBool(TRUE)), EmptyText, <<"mark_sanction", "(", ")">>),
      Body(Const(PyBool(TRUE)), EmptyText, Tok_set_fact("sancion_aplicada", <<"x">>)),
      Body(FlagIsSi, EmptyText, <<"require_approval", "(", ")">>),
      Body(Const(PyBool(TRUE)), EmptyText, Tok_set_fact("requiere_aprobacion", <<"x">>)),
      Body(Const(PyBool(TRUE)), EmptyText, Tok_set_fact("flag", <<"si">>)),
      Body(Const(PyBool(TRUE)), EmptyText, Tok_set_fact("flag", <<"b">>)),
      Body(Const(PyBool(TRUE)), FlagIsSi, <<"add_observacion", "(", "'", "m", "'", ")">>) }
ChainRuleFiles ==
    {<<MakeRule(1, a, p)>> : a \in ChainBodies, p \in Priorities}
    \cup {<<MakeRule(1, a, p[1]), MakeRule(2, b, p[2]), MakeRule(3, c, p[3])>> :
              a \in ChainBodies, b \in ChainBodies, c \in ChainBodies,
              p \in [1..3 -> Priorities]}

InitChain ==
    /\ CallIdle /\ CbrIdle
    /\ rule_file \in ChainRuleFiles
    /\ rules = _load_rules(rule_file)
    /\ initial_facts = NoFacts /\ facts = NoFacts
    /\ steps = <<>> /\ conclusions = <<>> /\ actions_taken = <<>>
    /\ iteration = 0 /\ max_iterations = 0
    /\ pc = "idle" /\ runs = <<>>
SpecChain == InitChain /\ [][Next]_vars

\* the action text is a set_fact that writes the fact `name`
SetsFact(text, name) ==
    /\ Join(Strip(BeforeFirst(text, "("))) = "set_fact"
    /\ name \in DOMAIN _execute_action(text, CallRule, NoFacts).facts
\* some step fired a rule with this action, and no step after it fired a
\* set_fact on the fact `name`
FiredAndNotOverwritten(text, name) ==
    \E i \in 1..Len(steps) :
        /\ steps[i].action = text
        /\ \A j \in (i + 1)..Len(steps) : ~SetsFact(steps[j].action, name)
\* the rule file is one rule with this action whose condition (and
\* activation_condition, if any) the initial facts satisfy
SingleRule(text) ==
    /\ Len(rule_file) = 1 /\ rule_file[1].action = text
    /\ ConditionTrueInitially(rule_file[1]) /\ ActivationTrueInitially(rule_file[1])

\* C23 as stated: once a rule with action mark_sanction() has fired, the
\* returned final facts hold sancion_aplicada == True whatever fired
\* afterwards (likewise requiere_aprobacion after require_approval()); a run
\* over that single rule, its condition satisfied, returns exactly one step.
C23_Original_SanctionFlagStays ==
    pc = "returned" =>
        /\ (\E i \in 1..Len(steps) : steps[i].action = <<"mark_sanction", "(", ")">>)
              => FactGet(facts, "sancion_aplicada") = PyBool(TRUE)
        /\ (\E i \in 1..Len(steps) : steps[i].action = <<"require_approval", "(", ")">>)
              => FactGet(facts, "requiere_aprobacion") = PyBool(TRUE)
        /\ SingleRule(<<"mark_sanction", "(", ")">>) => Len(steps) = 1

\* C23 amended: the flag is True in the returned final facts when no rule
\* that fired after the mark_sanction() rule (the require_approval() rule)
\* has a set_fact action on that flag; the run over the single rule returns
\* exactly one step when max_iterations is at least 1.
C23_SanctionFlagStays ==
    pc = "returned" =>
        /\ FiredAndNotOverwritten(<<"mark_sanction", "(", ")">>, "sancion_aplicada")
              => FactGet(facts, "sancion_aplicada") = PyBool(TRUE)
        /\ FiredAndNotOverwritten(<<"require_approval", "(", ")">>, "requiere_aprobacion")
              => FactGet(facts, "requiere_aprobacion") = PyBool(TRUE)
        /\ (SingleRule(<<"mark_sanction", "(", ")">>) /\ max_iterations >= 1)
              => Len(steps) = 1 /\ FactGet(facts, "sancion_aplicada") = PyBool(TRUE)
\* C23 witness: two rules fired after the mark_sanction() rule, none of them
\* a set_fact on the flag, and the flag is True in the returned facts
C23_Witness_FlagKeptAfterLaterFirings ==
    /\ pc = "returned" /\ Len(steps) = 3
    /\ steps[1].action = <<"mark_sanction", "(", ")">>
    /\ steps[2].action = Tok_set_fact("flag", <<"si">>)
    /\ steps[3].action = <<"require_approval", "(", ")">>
    /\ FactGet(facts, "sancion_aplicada") = PyBool(TRUE)

\* C24: a run that returns with fewer steps than max_iterations has reached
\* a fixed point: in the returned final facts no rule that is not marked
\* executed has its activation_condition (if any) and its condition true.
C24_FixedPointBelowCap ==
    (pc = "returned" /\ Len(steps) < max_iterations) =>
        \A r \in 1..Len(rule_file) : ~Eligible(rule_file[r], facts)
\* C24 witness: a run below the cap returned after two firings with the
\* third rule not marked executed
C24_Witness_StoppedWithRuleUnfired ==
    /\ pc = "returned" /\ Len(rule_file) = 3 /\ Len(steps) = 2
    /\ Len(steps) < max_iterations
    /\ \E r \in 1..3 : ~Truthy(FactGet(facts, ExecutedKey(rule_file[r].id)))

\* the rule a step fired
RuleOfStep(n) == rule_file[FilePos(steps[n].rule_id)]
\* a is before b in priority order: ascending priority, ties in file order
PriorityBefore(a, b) ==
    \/ a.priority < b.priority
    \/ a.priority = b.priority /\ FilePos(a.id) < FilePos(b.id)
\* The facts the scan of the n-th firing read, from the facts_used of its
\* step (the scalar facts) and the special functions; for n beyond the last
\* step, the current facts.  No condition of the rule bodies reads a list.
FactsAtStep(n) ==
    IF n > Len(steps) THEN facts ELSE WithSpecials(steps[n].facts_used, 0)
ConditionTrueIn(rule, f) == Truthy(evaluate(rule.condition, f).value)
\* the n-th firing made the condition of rule u true, u being before the
\* fired rule in priority order, not fired before and eligible afterwards
Unlocked(u, n) ==
    /\ PriorityBefore(u, RuleOfStep(n))
    /\ \A m \in 1..n : steps[m].rule_id # u.id
    /\ ~ConditionTrueIn(u, FactsAtStep(n))
    /\ Eligible(u, FactsAtStep(n + 1))

\* C25: priority order is re-applied after every firing.  When a firing
\* makes the condition of a rule earlier in priority order true, the next
\* rule to fire is that rule (or a rule before it in priority order that is
\* eligible as well), never a rule after it, and the run does not return
\* below the cap without firing it; and every rule that fires has its
\* condition true in the facts of that scan, so a rule whose condition an
\* action made false does not fire while it stays false.
C25_PriorityReappliedAfterFiring ==
    /\ \A n \in 1..Len(steps) : \A r \in 1..Len(rule_file) :
          Unlocked(rule_file[r], n) =>
             IF n < Len(steps)
             THEN \/ steps[n + 1].rule_id = rule_file[r].id
                  \/ /\ PriorityBefore(RuleOfStep(n + 1), rule_file[r])
                     /\ Eligible(RuleOfStep(n + 1), FactsAtStep(n + 1))
             ELSE pc = "returned" => Len(steps) >= max_iterations
    /\ \A n \in 1..Len(steps) : ConditionTrueIn(RuleOfStep(n), FactsAtStep(n))
\* C25 witness: the rule second in priority order fired first and made the
\* condition of the first rule true; that rule fired next, ahead of the
\* third rule, which was eligible from the start
C25_Witness_UnlockedRuleFiresNext ==
    /\ Len(rules) = 3 /\ Len(steps) = 3
    /\ steps[1].rule_id = rules[2].id /\ Unlocked(rules[1], 1)
    /\ steps[2].rule_id = rules[1].id
    /\ ConditionTrueInitially(rules[3]) /\ ActivationTrueInitially(rules[3])
    /\ steps[3].rule_id = rules[3].id

-----------------------------------------------------------------------------
(***************************************************************************)
(* Runs over a rule that writes a literal with set_fact and a rule that    *)
(* compares the fact with a literal.                                       *)
(***************************************************************************)
\* a literal as the action text holds it and the value it denotes:
\* 'si', "si", '5', 5, True
SetFactLiterals ==
    { [text |-> <<"'", "si", "'">>,   value |-> PyStr("si")],
      [text |-> <<"\"", "si", "\"">>, value |-> PyStr("si")],
      [text |-> <<"'", "5", "'">>,    value |-> PyStr("5")],
      [text |-> <<"5">>,              value |-> PyInt(5)],
      [text |-> <<"True">>,           value |-> PyBool(TRUE)] }
\* True -> set_fact('n', <literal>)
Writer(l) ==
    Body(Const(PyBool(TRUE)), EmptyText,
         <<"set_fact", "(", "'", "n", "'", ",", " ">> \o l.text \o <<")">>)
\* n == <literal> -> mark_sanction()
Reader(l) ==
    Body(Compare(Name("n"), <<"Eq">>, <<Const(l.value)>>), EmptyText,
         <<"mark_sanction", "(", ")">>)
SetFactRuleFiles ==
    {<<MakeRule(1, Writer(w), p), MakeRule(2, Reader(r), q)>> :
        w \in SetFactLiterals, r \in SetFactLiterals, p \in Priorities, q \in Priorities}

InitSetFact ==
    /\ CallIdle /\ CbrIdle
    /\ rule_file \in SetFactRuleFiles
    /\ rules = _load_rules(rule_file)
    /\ initial_facts = NoFacts /\ facts = NoFacts
    /\ steps = <<>> /\ conclusions = <<>> /\ actions_taken = <<>>
    /\ iteration = 0 /\ max_iterations = 0
    /\ pc = "idle" /\ runs = <<>>
SpecSetFact == InitSetFact /\ [][Next]_vars

\* C26: once a rule has fired set_fact('n', <literal>), the fact n holds the
\* value of the literal, and the rule whose condition is n == <the same
\* literal> fires later in the run (when max_iterations leaves room for a
\* second firing), for string, integer and boolean literals.
C26_SetFactValueIsRead ==
    \A l \in SetFactLiterals :
        ( /\ rule_file[1] = MakeRule(1, Writer(l), rule_file[1].priority)
          /\ rule_file[2] = MakeRule(2, Reader(l), rule_file[2].priority)
          /\ Len(steps) >= 1 )
        => /\ steps[1].rule_id = "r1"
           /\ FactGet(facts, "n") = l.value
           /\ (pc = "returned" /\ max_iterations >= 2) =>
                  Len(steps) = 2 /\ steps[2].rule_id = "r2"

\* the rule has no activation_condition, or it is true in f
ActivationTrueIn(rule, f) ==
    rule.activation_condition.k = "Empty"
    \/ Truthy(evaluate(rule.activation_condition, f).value)
HasStep(rule) == \E n \in 1..Len(steps) : steps[n].rule_id = rule.id

\* C27: a rule whose activation_condition is false in the facts of a scan
\* gets no step in that scan, whatever its condition, and a rule without a
\* step is not marked executed; when a run returns below the cap, a rule
\* whose activation_condition was false at first and is true, with its
\* condition, in the final facts has fired.
C27_GatedRuleWaits ==
    /\ \A n \in 1..Len(steps) : ActivationTrueIn(RuleOfStep(n), FactsAtStep(n))
    /\ \A r \in 1..Len(rule_file) :
          ~HasStep(rule_file[r]) => ~Truthy(FactGet(facts, ExecutedKey(rule_file[r].id)))
    /\ (pc = "returned" /\ Len(steps) < max_iterations) =>
          \A r \in 1..Len(rule_file) :
              ( /\ ~ActivationTrueInitially(rule_file[r])
                /\ ActivationTrueIn(rule_file[r], facts)
                /\ ConditionTrueIn(rule_file[r], facts) )
              => HasStep(rule_file[r])
\* C27 witness: the rule first in priority order, its condition true and
\* its activation_condition false in the initial facts, fired second, after
\* the rule whose action made its activation_condition true
C27_Witness_GatedRuleFiredLater ==
    /\ pc = "returned" /\ Len(rules) = 3 /\ Len(steps) >= 2
    /\ ConditionTrueInitially(rules[1]) /\ ~ActivationTrueInitially(rules[1])
    /\ steps[1].rule_id = rules[2].id /\ steps[2].rule_id = rules[1].id
    /\ ActivationTrueIn(rules[1], FactsAtStep(2))

-----------------------------------------------------------------------------
(***************************************************************************)
(* Feedback on stored cases: store_case and update_case_feedback on a      *)
(* working table, and the case list a new CaseBasedLearning loads from it. *)
(***************************************************************************)
\* the in-memory part of update_case_feedback (lines 351-355): the first
\* case with the id gets the feedback, then the loop breaks
RECURSIVE UpdateFirst(_, _, _, _)
UpdateFirst(cs, case_id, feedback, expert_validation) ==
    IF cs = <<>> THEN <<>>
    ELSE IF Head(cs).case_id = case_id
         THEN <<[Head(cs) EXCEPT !.feedback = feedback,
                                 !.expert_validation = expert_validation]>> \o Tail(cs)
    ELSE <<Head(cs)>> \o UpdateFirst(Tail(cs), case_id, feedback, expert_validation)
\* UPDATE cases SET feedback = ?, expert_validation = ? WHERE case_id = ?
UpdateRows(rows, case_id, feedback, expert_validation) ==
    [k \in 1..Len(rows) |->
        IF rows[k].case_id = case_id
        THEN [rows[k] EXCEPT !.feedback = feedback,
                             !.expert_validation = expert_validation]
        ELSE rows[k]]

\* CaseBasedLearning.update_case_feedback, the table working
update_case_feedback(case_id, feedback, expert_validation) ==
    /\ cases' = UpdateFirst(cases, case_id, feedback, expert_validation)
    /\ db' = UpdateRows(db, case_id, feedback, expert_validation)
    /\ UNCHANGED <<nextRowId, lastStore, simIn, simOut, retrVars, inferVars, callVars>>

\* feedback texts of the reviewer
FeedbackTexts == {"ok"}
\* the ids of the stored cases and the id of a case that was never stored
KnownIds == {cases[k].case_id : k \in 1..Len(cases)}
            \cup {CaseId([motivo |-> PyStr("x")], <<>>, <<>>)}

UpdateFeedback ==
    /\ findIn = <<>> /\ recIn = <<>>
    /\ \E id \in KnownIds, text \in FeedbackTexts, validated \in BOOLEAN :
          update_case_feedback(id, text, validated)

NextFeedback == StoreSample \/ UpdateFeedback
SpecFeedback == InitCBR /\ [][NextFeedback]_vars

\* the rows by timestamp, latest first (ORDER BY timestamp DESC); the
\* timestamps of the rows differ
RECURSIVE ByTimestampDesc(_)
ByTimestampDesc(rows) ==
    IF rows = <<>> THEN <<>>
    ELSE LET m == CHOOSE k \in 1..Len(rows) :
                      \A j \in 1..Len(rows) : rows[j].timestamp <= rows[k].timestamp
         IN  <<rows[m]>> \o ByTimestampDesc(SubSeq(rows, 1, m - 1)
                                              \o SubSeq(rows, m + 1, Len(rows)))
\* LIMIT 1000
LoadLimit == 1000
\* CaseBasedLearning._load_cases_from_db: self.cases of a new instance
_load_cases_from_db(rows) ==
    LET q == FirstK(ByTimestampDesc(rows), LoadLimit) IN
    [k \in 1..Len(q) |->
        [case_id |-> q[k].case_id, facts |-> q[k].facts,
         rules_applied |-> q[k].rules_applied, actions_taken |-> q[k].actions_taken,
         outcome |-> q[k].outcome, feedback |-> q[k].feedback,
         similarity_features |-> q[k].similarity_features,
         timestamp |-> q[k].timestamp, expert_validation |-> q[k].expert_validation]]

\* C28: a store_case call leaves every case of the list in its place with
\* its feedback and expert_validation, and every row of the table keeps its
\* case_id, feedback and expert_validation: no case is removed and no
\* feedback of the reviewer is changed, also when the call re-submits a
\* stored case.
C28_StoreKeepsFeedback ==
    [][ Len(lastStore') = Len(lastStore) + 1 =>
          /\ Len(cases') >= Len(cases)
          /\ \A k \in 1..Len(cases) :
                /\ cases'[k].case_id = cases[k].case_id
                /\ cases'[k].feedback = cases[k].feedback
                /\ cases'[k].expert_validation = cases[k].expert_validation
          /\ \A k \in 1..Len(db) : \E j \in 1..Len(db') :
                /\ db'[j].case_id = db[k].case_id
                /\ db'[j].feedback = db[k].feedback
                /\ db'[j].expert_validation = db[k].expert_validation ]_vars

\* what the reviewer and retrieval see of a case
Verdict(c) == <<c.case_id, c.outcome, c.feedback, c.expert_validation>>
\* C30: with a working table the case list holds exactly one case for
\* every persisted case_id, with the outcome, feedback and expert_validation
\* of its row, every case of the list has a row, and the list holds the
\* cases a reload from the table gives.
C30_ListMatchesTable ==
    /\ \A k \in 1..Len(db) :
          /\ Cardinality(CasesWithId(db[k].case_id)) = 1
          /\ \A c \in CasesWithId(db[k].case_id) : Verdict(cases[c]) = Verdict(db[k])
    /\ \A c \in 1..Len(cases) : RowsWithId(cases[c].case_id) # {}
    /\ LET loaded == _load_cases_from_db(db) IN
          /\ Len(cases) = Len(loaded)
          /\ {Verdict(cases[c]) : c \in 1..Len(cases)}
               = {Verdict(loaded[c]) : c \in 1..Len(loaded)}

-----------------------------------------------------------------------------
(***************************************************************************)
(* The caller's mapping.  initial_facts is the mapping as the caller gave  *)
(* it; self.facts = initial_facts.copy() is a new dict that holds the same *)
(* value objects, so a list in it is the caller's list until the key is    *)
(* bound again.  The engine binds a key to a list only in _add_observacion *)
(* when the key is absent, and never deletes a key: a key that held a list *)
(* at the call and holds a list now holds the caller's list.               *)
(***************************************************************************)
\* a mapping bound to self.facts without the copy: every key is the caller's
KeysWithoutCopy(m, f) == DOMAIN f
\* the keys whose value object the caller's mapping and self.facts share
SharedKeys(m, f) ==
    {k \in DOMAIN m \cap DOMAIN f : m[k].t \in {"list", "dict"} /\ f[k].t = m[k].t}
\* the caller's mapping as it is now
CallerMapping ==
    LET shared == SharedKeys(initial_facts, facts) IN
    [k \in DOMAIN initial_facts \cup shared |->
        IF k \in shared THEN facts[k] ELSE initial_facts[k]]

\* facts of a caller: primitive values; a list under a name the engine does
\* not write; a list under the reserved name observaciones
CallerFacts ==
    InitialFacts \cup
    { [duracion |-> PyInt(8), historial |-> PyList(<<PyInt(1)>>)],
      [duracion |-> PyInt(8), flag |-> PyStr("si"), observaciones |-> PyList(<<>>)] }
StartCaller ==
    /\ pc = "idle"
    /\ \E f \in CallerFacts : Begin(f, DefaultMaxIterations)
NextCaller == StartCaller \/ Iterate \/ Return
SpecCaller == InitChain /\ [][NextCaller]_vars

====
